---------------------------- MODULE Spec2Model ----------------------------
(***************************************************************************)
(* Search filter nodes of the track library (library/searchquery.cpp):     *)
(* the boolean combinators AndNode / OrNode / NotNode and the leaves       *)
(* NumericFilterNode, DurationFilterNode, BpmFilterNode, TextFilterNode,   *)
(* CrateFilterNode and NoCrateFilterNode, each with its two evaluators     *)
(* match(track) and toSql().                                               *)
(*                                                                         *)
(* A QString is a sequence of one-character strings.  A double is a        *)
(* fixed-point integer counted in units of 1/Scale.  A QVariant is a       *)
(* record [valid, d]: valid is "isValid() && canConvert<double>()".        *)
(***************************************************************************)
EXTENDS Integers, Sequences, FiniteSets, TLC

\* ------------------------------------------------------------------ bounds

\* Longest argument string handed to a leaf constructor in SpecNumeric.
MaxArgLen == 3
\* Largest whole number a track column holds.
MaxValue == 3
\* Largest number of nodes (leaves and combinators) alive at once in Spec.
MaxNodes == 4
\* Largest number of nodes alive at once in SpecToSql.
MaxSqlNodes == 5
\* Longest argument string handed to a duration leaf in SpecDuration.
MaxDurationLen == 4
\* Longest argument string handed to a tempo leaf in SpecBpm.
MaxBpmArgLen == 3
\* Largest whole tempo of a track in SpecBpm and SpecBpmRange.
MaxBpm == 5
\* Largest track id in SpecCrate and SpecCrateThreads.
MaxTrackId == 2
\* Number of threads that call match in SpecCrateThreads.
MaxThreads == 2
\* Longest text a track column holds in SpecText.
MaxTextLen == 3

\* Units per 1.0 of the fixed-point representation of a double.
Scale == 1000

\* ----------------------------------------------------------------- strings

DigitChars == <<"0", "1", "2", "3", "4", "5", "6", "7", "8", "9">>

IsDigit(c) == \E i \in 1..10 : DigitChars[i] = c

DigitVal(c) == (CHOOSE i \in 1..10 : DigitChars[i] = c) - 1

\* QString::startsWith
StartsWith(s, p) == Len(s) >= Len(p) /\ SubSeq(s, 1, Len(p)) = p

\* QStringList::join
RECURSIVE Join(_, _)
Join(list, sep) ==
    IF Len(list) = 0 THEN <<>>
    ELSE IF Len(list) = 1 THEN list[1]
    ELSE list[1] \o sep \o Join(Tail(list), sep)

\* QString::split(sep) for a one-character separator: empty parts are kept.
RECURSIVE Split(_, _)
Split(s, sep) ==
    IF \A i \in 1..Len(s) : s[i] # sep THEN <<s>>
    ELSE LET i == CHOOSE k \in 1..Len(s) :
                      s[k] = sep /\ \A j \in 1..(k - 1) : s[j] # sep
         IN  <<SubSeq(s, 1, i - 1)>> \o Split(SubSeq(s, i + 1, Len(s)), sep)

\* Value of a string of decimal digits.
RECURSIVE DigitsVal(_)
DigitsVal(s) ==
    IF Len(s) = 0 THEN 0
    ELSE 10 * DigitsVal(SubSeq(s, 1, Len(s) - 1)) + DigitVal(s[Len(s)])

RECURSIVE Pow10(_)
Pow10(n) == IF n = 0 THEN 1 ELSE 10 * Pow10(n - 1)

\* Decimal digits of a natural number, no leading zeros ("0" for zero).
RECURSIVE NatDigits(_)
NatDigits(n) ==
    IF n < 10 THEN <<DigitChars[n + 1]>>
    ELSE NatDigits(n \div 10) \o <<DigitChars[(n % 10) + 1]>>

\* Number of fractional digits the fixed-point representation keeps.
RECURSIVE Log10(_)
Log10(n) == IF n <= 1 THEN 0 ELSE 1 + Log10(n \div 10)

FracDigits == Log10(Scale)

\* QString::toDouble(&ok) in the C locale, for the strings made of a sign,
\* digits and a decimal point: [sign] digits [. digits] with at least one
\* digit.  A failed conversion gives ok = false and 0.0.
toDouble(s) ==
    LET signed == Len(s) > 0 /\ s[1] \in {"-", "+"}
        body   == IF signed THEN Tail(s) ELSE s
        parts  == Split(body, ".")
        ip     == parts[1]
        fp     == IF Len(parts) = 2 THEN parts[2] ELSE <<>>
        wellFormed ==
            /\ Len(parts) <= 2
            /\ \A i \in 1..Len(ip) : IsDigit(ip[i])
            /\ \A i \in 1..Len(fp) : IsDigit(fp[i])
            /\ Len(ip) + Len(fp) >= 1
            /\ Len(fp) <= FracDigits
        mag    == DigitsVal(ip) * Scale
                      + DigitsVal(fp) * Pow10(FracDigits - Len(fp))
    IN  IF wellFormed
        THEN [ok |-> TRUE, d |-> IF signed /\ s[1] = "-" THEN 0 - mag ELSE mag]
        ELSE [ok |-> FALSE, d |-> 0]

\* Fractional digits with the trailing zeros removed.
RECURSIVE ChopZeros(_)
ChopZeros(s) ==
    IF Len(s) > 0 /\ s[Len(s)] = "0" THEN ChopZeros(SubSeq(s, 1, Len(s) - 1))
    ELSE s

\* A natural number below Pow10(n) as exactly n digits.
RECURSIVE PadDigits(_, _)
PadDigits(v, n) ==
    IF n = 0 THEN <<>>
    ELSE PadDigits(v \div 10, n - 1) \o <<DigitChars[(v % 10) + 1]>>

\* QString::number(double): format 'g' with six significant digits, for the
\* magnitudes the model holds (below 10^6, at most FracDigits decimals).
QStringNumber(d) ==
    LET mag  == IF d < 0 THEN 0 - d ELSE d
        frac == ChopZeros(PadDigits(mag % Scale, FracDigits))
    IN  (IF d < 0 THEN <<"-">> ELSE <<>>)
            \o NatDigits(mag \div Scale)
            \o (IF Len(frac) = 0 THEN <<>> ELSE <<".">> \o frac)

\* ------------------------------------------------------- shared constants

\* The search term that asks for tracks whose field is missing.
kMissingFieldSearchTerm == <<"\"", "\"">>

LIBRARYTABLE_BPM == <<"b", "p", "m">>

LIBRARYTABLE_RATING == <<"r", "a", "t", "i", "n", "g">>

LIBRARYTABLE_DURATION == <<"d", "u", "r", "a", "t", "i", "o", "n">>

\* The alternatives of kNumericOperatorRegex, in the order they are tried.
kNumericOperatorAlternatives ==
    << <<"<", "=">>, <<">", "=">>, <<"=">>, <<"<">>, <<">">> >>

\* The same alternatives with the one-character operators tried first.
kNumericOperatorAlternativesShortFirst ==
    << <<"=">>, <<"<">>, <<">">>, <<"<", "=">>, <<">", "=">> >>

\* kNumericOperatorRegex.match(argument): ^(<=|>=|=|<|>)(.*)$.  The first
\* alternative that is a prefix of the argument is chosen; (.*) takes the
\* rest.
RegexMatchOperator(alternatives, argument) ==
    LET hits == {i \in 1..Len(alternatives) : StartsWith(argument, alternatives[i])}
    IN  IF hits = {}
        THEN [hasMatch |-> FALSE, captured1 |-> <<>>, captured2 |-> <<>>]
        ELSE LET i == CHOOSE k \in hits : \A j \in hits : k <= j
             IN  [hasMatch  |-> TRUE,
                  captured1 |-> alternatives[i],
                  captured2 |-> SubSeq(argument, Len(alternatives[i]) + 1,
                                       Len(argument))]

kNumericOperatorRegexMatchShortFirst(argument) ==
    RegexMatchOperator(kNumericOperatorAlternativesShortFirst, argument)

kNumericOperatorRegexMatch(argument) ==
    RegexMatchOperator(kNumericOperatorAlternatives, argument)

\* ------------------------------------------------------------------ tracks

\* An invalid QVariant, or one that does not convert to double.
InvalidVariant == [valid |-> FALSE, d |-> 0]

Variant(d) == [valid |-> TRUE, d |-> d]

Columns == {LIBRARYTABLE_BPM, LIBRARYTABLE_RATING}

TrackValues == {InvalidVariant} \cup {Variant(v * Scale) : v \in 0..MaxValue}

\* A track gives each column of the library a value or none.
Tracks == [Columns -> TrackValues]

getTrackValueForColumn(pTrack, column) ==
    IF column \in DOMAIN pTrack THEN pTrack[column] ELSE InvalidVariant

\* ------------------------------------------------------------ SQL clauses

\* The text of an SQL keyword or connective as a QString.
SqlAnd == <<"A", "N", "D">>

SqlOr == <<"O", "R">>

SqlFalse == <<"F", "A", "L", "S", "E">>

SqlNotOpen == <<"N", "O", "T", " ", "(">>

SqlIsNull == <<" ", "I", "S", " ", "N", "U", "L", "L">>

SqlBetween == <<" ", "B", "E", "T", "W", "E", "E", "N", " ">>

SqlBetweenAnd == <<" ", "A", "N", "D", " ">>

\* concatSqlClauses with every clause wrapped, also a single one.
concatSqlClausesWrapSingle(sqlClauses, sqlConcatOp) ==
    IF Len(sqlClauses) = 0 THEN <<>>
    ELSE <<"(">>
             \o Join(sqlClauses, <<")", " ">> \o sqlConcatOp \o <<" ", "(">>)
             \o <<")">>

concatSqlClauses(sqlClauses, sqlConcatOp) ==
    IF Len(sqlClauses) = 0 THEN <<>>
    ELSE IF Len(sqlClauses) = 1 THEN sqlClauses[1]
    ELSE <<"(">>
             \o Join(sqlClauses, <<")", " ">> \o sqlConcatOp \o <<" ", "(">>)
             \o <<")">>

\* ------------------------------------------------------- NumericFilterNode

\* NumericFilterNode(sqlColumns): the member initializers.
NumericFilterNode_new(sqlColumns) ==
    [kind                |-> "NumericFilterNode",
     m_sqlColumns        |-> sqlColumns,
     m_bOperatorQuery    |-> FALSE,
     m_bNullQuery        |-> FALSE,
     m_operator          |-> <<"=">>,
     m_dOperatorArgument |-> 0,
     m_bRangeQuery       |-> FALSE,
     m_dRangeLow         |-> 0,
     m_dRangeHigh        |-> 0]

NumericFilterNode_parse(arg) == toDouble(arg)

\* ------------------------------------------------------ DurationFilterNode

\* The character class [0-5].
IsDigit0To5(c) == IsDigit(c) /\ DigitVal(c) <= 5

\* The ways the pattern of kDurationRegex, ^(\d+)(m|:)?([0-5]?\d)?s?$, covers
\* the whole of arg: n1, n2, n3 and ns are the lengths taken by group 1,
\* group 2, group 3 and the trailing s.
kDurationRegexSplits(arg) ==
    {sp \in [n1 : 1..Len(arg), n2 : 0..1, n3 : 0..2, ns : 0..1] :
        /\ sp.n1 + sp.n2 + sp.n3 + sp.ns = Len(arg)
        /\ \A i \in 1..sp.n1 : IsDigit(arg[i])
        /\ sp.n2 = 1 => arg[sp.n1 + 1] \in {"m", ":"}
        /\ sp.n3 = 1 => IsDigit(arg[sp.n1 + sp.n2 + 1])
        /\ sp.n3 = 2 => /\ IsDigit0To5(arg[sp.n1 + sp.n2 + 1])
                        /\ IsDigit(arg[sp.n1 + sp.n2 + 2])
        /\ sp.ns = 1 => arg[Len(arg)] = "s"}

\* The split a is tried before the split b: every quantifier of the pattern
\* is greedy, so the longer group 1 comes first, then the longer group 2,
\* then the longer group 3.  With greedy = FALSE group 1 is lazy.
DurationSplitBefore(a, b, greedy) ==
    \/ (IF greedy THEN a.n1 > b.n1 ELSE a.n1 < b.n1)
    \/ a.n1 = b.n1 /\ a.n2 > b.n2
    \/ a.n1 = b.n1 /\ a.n2 = b.n2 /\ a.n3 > b.n3

\* The match found for arg: the first split in the order of trial.
DurationRegexMatch(arg, greedy) ==
    LET splits == kDurationRegexSplits(arg)
    IN  IF splits = {}
        THEN [hasMatch |-> FALSE, captured1 |-> <<>>, captured2 |-> <<>>,
              captured3 |-> <<>>]
        ELSE LET sp == CHOOSE a \in splits :
                           \A b \in splits \ {a} : DurationSplitBefore(a, b, greedy)
             IN  [hasMatch  |-> TRUE,
                  captured1 |-> SubSeq(arg, 1, sp.n1),
                  captured2 |-> SubSeq(arg, sp.n1 + 1, sp.n1 + sp.n2),
                  captured3 |-> SubSeq(arg, sp.n1 + sp.n2 + 1,
                                       sp.n1 + sp.n2 + sp.n3)]

\* The pattern with (\d+?) for group 1.
kDurationRegexMatchLazy(arg) == DurationRegexMatch(arg, FALSE)

\* kDurationRegex.match(arg)
kDurationRegexMatch(arg) == DurationRegexMatch(arg, TRUE)

\* DurationFilterNode::parse(arg, ok): the record [ok, d] of the flag and
\* the value returned.
DurationFilterNode_parse(arg) ==
    LET regexMatch == kDurationRegexMatch(arg)
        onlyNumber == /\ Len(regexMatch.captured3) = 0
                      /\ Len(regexMatch.captured2) = 0
        first      == toDouble(regexMatch.captured1)
        m          == IF onlyNumber THEN 0 ELSE first.d
        s          == IF onlyNumber THEN first.d
                      ELSE toDouble(regexMatch.captured3).d
    IN  IF ~regexMatch.hasMatch THEN [ok |-> FALSE, d |-> 0]
        ELSE IF ~first.ok THEN [ok |-> FALSE, d |-> 0]
        ELSE [ok |-> TRUE, d |-> 60 * m + s]

\* DurationFilterNode(sqlColumns, argument): the base-class initializers;
\* the constructor then calls init(argument).
DurationFilterNode_new(sqlColumns) ==
    [NumericFilterNode_new(sqlColumns) EXCEPT !.kind = "DurationFilterNode"]

\* The virtual call parse(arg, &ok) made by init.
parse(node, arg) ==
    IF node.kind = "DurationFilterNode" THEN DurationFilterNode_parse(arg)
    ELSE NumericFilterNode_parse(arg)

\* init with the range accepted whatever the order of its bounds.
NumericFilterNode_initAnyOrder(node, argument0) ==
    IF argument0 = kMissingFieldSearchTerm
    THEN [node EXCEPT !.m_bNullQuery = TRUE]
    ELSE
    LET opMatch   == kNumericOperatorRegexMatch(argument0)
        argument  == IF opMatch.hasMatch THEN opMatch.captured2 ELSE argument0
        parsed    == parse(node, argument)
        rangeArgs == Split(argument, "-")
        low       == parse(node, rangeArgs[1])
        high      == parse(node, rangeArgs[2])
    IN  [node EXCEPT
            !.m_operator = IF opMatch.hasMatch THEN opMatch.captured1 ELSE @,
            !.m_dOperatorArgument = parsed.d,
            !.m_bOperatorQuery = parsed.ok,
            !.m_dRangeLow = IF Len(rangeArgs) = 2 THEN low.d ELSE @,
            !.m_dRangeHigh = IF Len(rangeArgs) = 2 THEN high.d ELSE @,
            !.m_bRangeQuery = Len(rangeArgs) = 2 /\ low.ok /\ high.ok]

\* NumericFilterNode::init(argument) on a freshly initialized node.
NumericFilterNode_init(node, argument0) ==
    IF argument0 = kMissingFieldSearchTerm
    THEN [node EXCEPT !.m_bNullQuery = TRUE]
    ELSE
    LET opMatch   == kNumericOperatorRegexMatch(argument0)
        argument  == IF opMatch.hasMatch THEN opMatch.captured2 ELSE argument0
        parsed    == parse(node, argument)
        rangeArgs == Split(argument, "-")
        low       == parse(node, rangeArgs[1])
        high      == parse(node, rangeArgs[2])
    IN  [node EXCEPT
            !.m_operator = IF opMatch.hasMatch THEN opMatch.captured1 ELSE @,
            !.m_dOperatorArgument = parsed.d,
            !.m_bOperatorQuery = parsed.ok,
            !.m_dRangeLow = IF Len(rangeArgs) = 2 THEN low.d ELSE @,
            !.m_dRangeHigh = IF Len(rangeArgs) = 2 THEN high.d ELSE @,
            !.m_bRangeQuery = /\ Len(rangeArgs) = 2
                              /\ low.ok /\ high.ok /\ low.d <= high.d]

\* The comparison of NumericFilterNode::match for one valid column value.
OperatorHolds(operator, dValue, dArgument) ==
    \/ operator = <<"=">> /\ dValue = dArgument
    \/ operator = <<"<">> /\ dValue < dArgument
    \/ operator = <<">">> /\ dValue > dArgument
    \/ operator = <<"<", "=">> /\ dValue <= dArgument
    \/ operator = <<">", "=">> /\ dValue >= dArgument

\* One round of the loop of NumericFilterNode::match: TRUE when the round
\* returns true, FALSE when it continues with the next column.
NumericFilterNode_matchColumn(node, value) ==
    IF ~value.valid
    THEN node.m_bNullQuery
    ELSE IF node.m_bOperatorQuery
         THEN OperatorHolds(node.m_operator, value.d, node.m_dOperatorArgument)
         ELSE /\ node.m_bRangeQuery
              /\ value.d >= node.m_dRangeLow
              /\ value.d <= node.m_dRangeHigh

\* match with the upper bound of a range excluded.
NumericFilterNode_matchHalfOpen(node, pTrack) ==
    \E i \in 1..Len(node.m_sqlColumns) :
        LET value == getTrackValueForColumn(pTrack, node.m_sqlColumns[i])
        IN  IF ~value.valid THEN node.m_bNullQuery
            ELSE IF node.m_bOperatorQuery
                 THEN OperatorHolds(node.m_operator, value.d,
                                    node.m_dOperatorArgument)
                 ELSE /\ node.m_bRangeQuery
                      /\ value.d >= node.m_dRangeLow
                      /\ value.d < node.m_dRangeHigh

\* match that only looks at the major column.
NumericFilterNode_matchMajorColumn(node, pTrack) ==
    /\ Len(node.m_sqlColumns) > 0
    /\ NumericFilterNode_matchColumn(node,
           getTrackValueForColumn(pTrack, node.m_sqlColumns[1]))

\* NumericFilterNode::match: the loop returns true at the first column whose
\* round does, and false after the last column.
NumericFilterNode_match(node, pTrack) ==
    \E i \in 1..Len(node.m_sqlColumns) :
        NumericFilterNode_matchColumn(node,
            getTrackValueForColumn(pTrack, node.m_sqlColumns[i]))

\* The clause of one column for an operator query.
OperatorClause(node, sqlColumn) ==
    sqlColumn \o <<" ">> \o node.m_operator \o <<" ">>
        \o QStringNumber(node.m_dOperatorArgument)

\* The clause of one column for a range query.
RangeClause(node, sqlColumn) ==
    sqlColumn \o SqlBetween \o QStringNumber(node.m_dRangeLow)
        \o SqlBetweenAnd \o QStringNumber(node.m_dRangeHigh)

\* NumericFilterNode::toSql
NumericFilterNode_toSql(node) ==
    IF node.m_bNullQuery
    THEN IF Len(node.m_sqlColumns) > 0
         THEN node.m_sqlColumns[1] \o SqlIsNull
         ELSE <<>>
    ELSE IF node.m_bOperatorQuery
    THEN concatSqlClauses(
             [i \in 1..Len(node.m_sqlColumns) |->
                 OperatorClause(node, node.m_sqlColumns[i])], SqlOr)
    ELSE IF node.m_bRangeQuery
    THEN concatSqlClauses(
             [i \in 1..Len(node.m_sqlColumns) |->
                 RangeClause(node, node.m_sqlColumns[i])], SqlOr)
    ELSE <<>>

\* ----------------------------------------------------------- BpmFilterNode

\* mixxx::Bpm::kValueUndefined: the tempo of a track that has none.
kValueUndefined == 0 * Scale

\* BpmFilterNode::kRelativeRangeDefault
kRelativeRangeDefault == (6 * Scale) \div 100

\* setBpmRelativeRange without its guard.
BpmFilterNode_setBpmRelativeRangeUnguarded(relativeRange, range) == range

\* BpmFilterNode::setBpmRelativeRange(range): the value of s_relativeRange
\* after the call, relativeRange being its value before.
BpmFilterNode_setBpmRelativeRange(relativeRange, range) ==
    IF range >= 0 THEN range ELSE relativeRange

\* floor(num / den) and ceil(num / den) as whole numbers, den > 0.
Floor(num, den) == (num \div den) * Scale

Ceil(num, den) == 0 - Floor(0 - num, den)

\* QString::replace(before, after) for single characters.
ReplaceChar(s, before, after) ==
    [i \in 1..Len(s) |-> IF s[i] = before THEN after ELSE s[i]]

\* The member initializers of BpmFilterNode(argument, fuzzy, negate).
BpmFilterNode_new(fuzzy, negate) ==
    [kind                |-> "BpmFilterNode",
     m_fuzzy             |-> fuzzy,
     m_negate            |-> negate,
     m_isNullQuery       |-> FALSE,
     m_isOperatorQuery   |-> FALSE,
     m_isRangeQuery      |-> FALSE,
     m_isHalfDoubleQuery |-> FALSE,
     m_operator          |-> <<"=">>,
     m_bpm               |-> 0,
     m_rangeLower        |-> 0,
     m_rangeUpper        |-> 0,
     m_bpmHalfLower      |-> 0,
     m_bpmHalfUpper      |-> 0,
     m_bpmDoubleLower    |-> 0,
     m_bpmDoubleUpper    |-> 0]

\* A call that returns with the node as it left it, and a call that does
\* not return (the process is aborted, or the call never ends).
Returned(node) == [returned |-> TRUE, node |-> node]

NotReturned(node) == [returned |-> FALSE, node |-> node]

\* The strings a read of parts[1] may produce when the list holds one part:
\* the read is out of range and its value is indeterminate.
IndeterminateDecimals == {<<>>, <<"1">>}

\* The range set with the same tolerance whatever the number of decimals.
BpmFilterNode_chopAndSetRangeOneDecimal(node, decimals, bpm) ==
    LET roundRange == (5 * Scale) \div Pow10(2)
    IN  {Returned([node EXCEPT !.m_rangeLower = bpm - roundRange,
                               !.m_rangeUpper = bpm + roundRange])}

\* ifDecimalsSetRange from the line "Chop trailing 0" on.  The loop reads
\* decimals.back() once more when nothing but zeros is left, that is, on an
\* empty string: the character read is indeterminate.  The loop ends when it
\* is not '0' and never ends when it is, since chop leaves the empty string
\* empty; a build with assertions aborts.
BpmFilterNode_chopAndSetRange(node, decimals, bpm) ==
    LET chopped     == ChopZeros(decimals)
        numDecimals == Len(chopped)
        roundRange  == (5 * Scale) \div Pow10(numDecimals + 1)
    IN  IF Len(chopped) > 0
        THEN {Returned([node EXCEPT !.m_rangeLower = bpm - roundRange,
                                    !.m_rangeUpper = bpm + roundRange])}
        ELSE {Returned([node EXCEPT !.m_rangeLower = bpm,
                                    !.m_rangeUpper = bpm]),
              NotReturned(node)}

\* BpmFilterNode::ifDecimalsSetRange(argument, bpm): the outcomes of the
\* call.  parts[1] is read whether or not the argument holds a '.'.
BpmFilterNode_ifDecimalsSetRange(node, argument, bpm) ==
    LET parts == Split(argument, ".")
    IN  IF Len(parts) >= 2
        THEN BpmFilterNode_chopAndSetRange(node, parts[2], bpm)
        ELSE {NotReturned(node)}
                 \cup UNION {BpmFilterNode_chopAndSetRange(node, decimals, bpm) :
                                 decimals \in IndeterminateDecimals}

\* The half and double ranges of the constructor, rounded to whole numbers.
BpmFilterNode_setHalfDouble(node, bpm) ==
    [node EXCEPT !.m_bpmHalfLower = Floor(bpm, 2 * Scale),
                 !.m_bpmHalfUpper = Ceil(bpm, 2 * Scale),
                 !.m_bpmDoubleLower = Floor(2 * bpm, Scale),
                 !.m_bpmDoubleUpper = Ceil(2 * bpm, Scale),
                 !.m_isHalfDoubleQuery = TRUE]

\* BpmFilterNode::BpmFilterNode(argument, fuzzy, negate), reading the shared
\* relative range: the outcomes of the constructor.
BpmFilterNode_ctor(argument0, fuzzy, negate, relativeRange) ==
    LET node0     == BpmFilterNode_new(fuzzy, negate)
        opMatch   == kNumericOperatorRegexMatch(argument0)
        node1     == [node0 EXCEPT !.m_operator =
                         IF opMatch.hasMatch THEN opMatch.captured1 ELSE @]
        argument  == ReplaceChar(IF opMatch.hasMatch THEN opMatch.captured2
                                 ELSE argument0, ",", ".")
        parsed    == toDouble(argument)
        isDouble  == parsed.ok
        bpm       == parsed.d
        rangeArgs == Split(argument, "-")
        low       == toDouble(rangeArgs[1])
        high      == toDouble(rangeArgs[2])
    IN  IF argument0 = kMissingFieldSearchTerm
        THEN {Returned([node0 EXCEPT !.m_isNullQuery = TRUE])}
        ELSE IF opMatch.hasMatch /\ fuzzy
        THEN {Returned(node0)}
        ELSE IF isDouble /\ fuzzy
        THEN {Returned([node1 EXCEPT
                 !.m_rangeLower =
                     Floor((Scale - relativeRange) * bpm, Scale * Scale),
                 !.m_rangeUpper =
                     Ceil((Scale + relativeRange) * bpm, Scale * Scale),
                 !.m_isRangeQuery = TRUE])}
        ELSE IF isDouble /\ ~opMatch.hasMatch /\ ~negate
        THEN {IF o.returned
              THEN Returned(BpmFilterNode_setHalfDouble(o.node, bpm))
              ELSE o : o \in BpmFilterNode_ifDecimalsSetRange(node1, argument, bpm)}
        ELSE IF isDouble /\ node1.m_operator = <<"=">>
        THEN {IF o.returned
              THEN Returned([o.node EXCEPT !.m_isRangeQuery = TRUE])
              ELSE o : o \in BpmFilterNode_ifDecimalsSetRange(node1, argument, bpm)}
        ELSE IF isDouble
        THEN {Returned([node1 EXCEPT !.m_bpm = bpm,
                                     !.m_isOperatorQuery = TRUE])}
        ELSE IF fuzzy
        THEN {Returned(node1)}
        ELSE IF Len(rangeArgs) = 2
        THEN {Returned([node1 EXCEPT
                 !.m_rangeLower = low.d,
                 !.m_rangeUpper = high.d,
                 !.m_isRangeQuery = low.ok /\ high.ok /\ low.d <= high.d])}
        ELSE {Returned(node1)}

\* pTrack->getBpm()
getBpm(pTrack) ==
    IF pTrack[LIBRARYTABLE_BPM].valid THEN pTrack[LIBRARYTABLE_BPM].d
    ELSE kValueUndefined

\* BpmFilterNode::match
BpmFilterNode_match(node, pTrack) ==
    LET value == getBpm(pTrack)
    IN  IF node.m_isNullQuery /\ value = kValueUndefined THEN TRUE
        ELSE IF node.m_isOperatorQuery
        THEN /\ ~node.m_fuzzy
             /\ OperatorHolds(node.m_operator, value, node.m_bpm)
        ELSE IF node.m_isHalfDoubleQuery
        THEN \/ value >= node.m_rangeLower /\ value <= node.m_rangeUpper
             \/ value >= node.m_bpmHalfLower /\ value <= node.m_bpmHalfUpper
             \/ value >= node.m_bpmDoubleLower /\ value <= node.m_bpmDoubleUpper
        ELSE IF /\ node.m_isRangeQuery
                /\ value >= node.m_rangeLower
                /\ value <= node.m_rangeUpper
        THEN TRUE
        ELSE value = node.m_bpm

\* "bpm BETWEEN %1 AND %2"
BpmBetween(lower, upper) ==
    LIBRARYTABLE_BPM \o SqlBetween \o QStringNumber(lower)
        \o SqlBetweenAnd \o QStringNumber(upper)

\* BpmFilterNode::toSql
BpmFilterNode_toSql(node) ==
    IF node.m_isNullQuery THEN LIBRARYTABLE_BPM \o SqlIsNull
    ELSE IF node.m_isOperatorQuery
    THEN IF node.m_fuzzy THEN <<>>
         ELSE LIBRARYTABLE_BPM \o <<" ">> \o node.m_operator \o <<" ">>
                  \o QStringNumber(node.m_bpm)
    ELSE IF node.m_isHalfDoubleQuery
    THEN concatSqlClauses(
             <<BpmBetween(node.m_rangeLower, node.m_rangeUpper),
               BpmBetween(node.m_bpmHalfLower, node.m_bpmHalfUpper),
               BpmBetween(node.m_bpmDoubleLower, node.m_bpmDoubleUpper)>>,
             SqlOr)
    ELSE IF node.m_isRangeQuery
    THEN BpmBetween(node.m_rangeLower, node.m_rangeUpper)
    ELSE <<>>

\* ---------------------------------- CrateFilterNode and NoCrateFilterNode

\* The store's LIKE: % stands for any run of characters, _ for exactly one.
RECURSIVE SqlLike(_, _)
SqlLike(pattern, value) ==
    IF Len(pattern) = 0 THEN Len(value) = 0
    ELSE IF pattern[1] = "%"
    THEN \E k \in 0..Len(value) :
             SqlLike(Tail(pattern), SubSeq(value, k + 1, Len(value)))
    ELSE /\ Len(value) >= 1
         /\ pattern[1] = "_" \/ pattern[1] = value[1]
         /\ SqlLike(Tail(pattern), Tail(value))

\* The elements of a set of numbers in ascending order.
RECURSIVE SortedSeq(_)
SortedSeq(S) ==
    IF S = {} THEN <<>>
    ELSE LET least == CHOOSE x \in S : \A y \in S : x <= y
         IN  <<least>> \o SortedSeq(S \ {least})

\* CrateStorage::selectTracksSortedByCrateNameLike(crateNameLike): the ids of
\* the tracks in the crates whose name is like the pattern, sorted.  The
\* storage maps each crate name to the set of ids of its tracks.
selectTracksSortedByCrateNameLike(storage, crateNameLike) ==
    SortedSeq(UNION {storage[name] :
                        name \in {n \in DOMAIN storage : SqlLike(crateNameLike, n)}})

\* CrateStorage::selectAllTracksSorted(): the ids of the tracks in any
\* crate, sorted.
selectAllTracksSorted(storage) ==
    SortedSeq(UNION {storage[name] : name \in DOMAIN storage})

\* The sub-select CrateStorage::formatQueryForTrackIdsByCrateNameLike gives.
formatQueryForTrackIdsByCrateNameLike(crateNameLike) ==
    <<"t", "r", "a", "c", "k", "s", " ", "L", "I", "K", "E", " ", "'">>
        \o crateNameLike \o <<"'">>

\* The sub-select CrateStorage::formatQueryForTrackIdsWithCrate gives.
formatQueryForTrackIdsWithCrate == <<"t", "r", "a", "c", "k", "s">>

CRATETABLE_ID == <<"i", "d">>

\* std::lower_bound over the count elements of range from first on.
RECURSIVE LowerBound(_, _, _, _)
LowerBound(range, first, count, value) ==
    IF count = 0 THEN first
    ELSE LET step == count \div 2
         IN  IF range[first + step] < value
             THEN LowerBound(range, first + step + 1, count - step - 1, value)
             ELSE LowerBound(range, first, step, value)

\* std::binary_search(range.begin(), range.end(), value)
binary_search(range, value) ==
    LET i == LowerBound(range, 1, Len(range), value)
    IN  i <= Len(range) /\ ~(value < range[i])

\* CrateFilterNode(pCrateStorage, crateNameLike)
CrateFilterNode_new(crateNameLike) ==
    [kind               |-> "CrateFilterNode",
     m_crateNameLike    |-> crateNameLike,
     m_matchInitialized |-> FALSE,
     m_matchingTrackIds |-> <<>>]

\* NoCrateFilterNode(pCrateStorage)
NoCrateFilterNode_new ==
    [kind               |-> "NoCrateFilterNode",
     m_matchInitialized |-> FALSE,
     m_matchingTrackIds |-> <<>>]

\* The query match runs on the storage to fill m_matchingTrackIds.
CrateNode_select(node, storage) ==
    IF node.kind = "CrateFilterNode"
    THEN selectTracksSortedByCrateNameLike(storage, node.m_crateNameLike)
    ELSE selectAllTracksSorted(storage)

\* A fill that never sets the flag: every call reads the ids anew.
CrateNode_fillNoFlag(node, storage) ==
    [queries |-> 1,
     node    |-> [node EXCEPT
                     !.m_matchingTrackIds = CrateNode_select(node, storage)]]

\* A fill that runs at every call: the flag is not looked at.
CrateNode_fillAlways(node, storage) ==
    [queries |-> 1,
     node    |-> [node EXCEPT
                     !.m_matchingTrackIds = @ \o CrateNode_select(node, storage),
                     !.m_matchInitialized = TRUE]]

\* The first part of match: when m_matchInitialized is false, the query is
\* run, every id it returns is pushed back and the flag is set.  The result
\* is the node after it and the number of queries run.
CrateNode_fill(node, storage) ==
    IF node.m_matchInitialized THEN [queries |-> 0, node |-> node]
    ELSE [queries |-> 1,
          node    |-> [node EXCEPT
                          !.m_matchingTrackIds =
                              @ \o CrateNode_select(node, storage),
                          !.m_matchInitialized = TRUE]]

\* if (!m_matchInitialized), but entered whatever the flag says.
CrateNode_needsFillAlways(node) == TRUE

\* if (!m_matchInitialized): whether this call of match fills the cache.
CrateNode_needsFill(node) == ~node.m_matchInitialized

\* m_matchingTrackIds.push_back(trackId) while no other thread uses the
\* vector.
CrateNode_push_back(node, trackId) ==
    [node EXCEPT !.m_matchingTrackIds = Append(@, trackId)]

\* m_matchInitialized = true
CrateNode_setInitialized(node) == [node EXCEPT !.m_matchInitialized = TRUE]

\* The second part of match: the search, negated by NoCrateFilterNode.
CrateNode_search(node, trackId) ==
    IF node.kind = "CrateFilterNode"
    THEN binary_search(node.m_matchingTrackIds, trackId)
    ELSE ~binary_search(node.m_matchingTrackIds, trackId)

CrateFilterNode_toSql(node) ==
    <<"i", "d", " ", "I", "N", " ", "(">>
        \o formatQueryForTrackIdsByCrateNameLike(node.m_crateNameLike)
        \o <<")">>

NoCrateFilterNode_toSql(node) ==
    CRATETABLE_ID \o <<" ", "N", "O", "T", " ", "I", "N", " ", "(">>
        \o formatQueryForTrackIdsWithCrate \o <<")">>

\* ---------------------------------------------------------- TextFilterNode

\* DbConnection::makeStringLatinLow: the string in lower case.
makeStringLatinLow(s) ==
    [i \in 1..Len(s) |-> IF s[i] = "A" THEN "a" ELSE s[i]]

\* QChar::isSpace
isSpace(c) == c \in {" ", "\t", "\n"}

\* QString::contains
Contains(s, sub) ==
    \E i \in 0..(Len(s) - Len(sub)) : SubSeq(s, i + 1, i + Len(sub)) = sub

\* The wildcard of LIKE that stands for any run of characters.
kSqlLikeMatchAll == <<"%">>

SqlLikeOp == <<" ", "L", "I", "K", "E", " ">>

\* FieldEscaper::escapeString: an SQL string literal, quotes doubled.
escapeString(s) ==
    LET RECURSIVE Doubled(_)
        Doubled(t) ==
            IF Len(t) = 0 THEN <<>>
            ELSE (IF t[1] = "'" THEN <<"'", "'">> ELSE <<t[1]>>)
                     \o Doubled(Tail(t))
    IN  <<"'">> \o Doubled(s) \o <<"'">>

\* TextFilterNode(database, sqlColumns, argument, matchMode)
TextFilterNode_new(sqlColumns, argument, matchMode) ==
    [kind         |-> "TextFilterNode",
     m_sqlColumns |-> sqlColumns,
     m_argument   |-> makeStringLatinLow(argument),
     m_matchMode  |-> matchMode]

\* TextFilterNode::match: true at the first column whose text compares.
TextFilterNode_match(node, pTrack) ==
    \E i \in 1..Len(node.m_sqlColumns) :
        LET value == getTrackValueForColumn(pTrack, node.m_sqlColumns[i])
            strValue == makeStringLatinLow(value.s)
        IN  /\ value.valid
            /\ IF node.m_matchMode = "Equals"
               THEN strValue = node.m_argument
               ELSE Contains(strValue, node.m_argument)

\* The string TextFilterNode::toSql hands to escapeString.
TextFilterNode_likePattern(node) ==
    LET m_argument == node.m_argument
        argument ==
            IF Len(m_argument) > 0 /\ isSpace(m_argument[Len(m_argument)])
            THEN Append(m_argument, "_")
            ELSE m_argument
    IN  IF node.m_matchMode = "Contains"
        THEN kSqlLikeMatchAll \o argument \o kSqlLikeMatchAll
        ELSE argument

TextFilterNode_toSql(node) ==
    LET escapedArgument == escapeString(TextFilterNode_likePattern(node))
    IN  concatSqlClauses(
            [i \in 1..Len(node.m_sqlColumns) |->
                node.m_sqlColumns[i] \o SqlLikeOp \o escapedArgument],
            SqlOr)

\* ------------------------------------------------------ boolean combinators

RECURSIVE match(_, _)
RECURSIVE toSql(_)

\* The fragments of the children, the empty ones left out, in order.
RECURSIVE NonEmptyFragments(_)
NonEmptyFragments(nodes) ==
    IF Len(nodes) = 0 THEN <<>>
    ELSE LET sql == toSql(nodes[1])
         IN  (IF Len(sql) = 0 THEN <<>> ELSE <<sql>>)
                 \o NonEmptyFragments(Tail(nodes))

\* An And that is false when it has no children.
AndNode_matchEmptyFalse(node, pTrack) ==
    /\ Len(node.m_nodes) > 0
    /\ \A i \in 1..Len(node.m_nodes) : match(node.m_nodes[i], pTrack)

\* AndNode::match: false at the first child that does not match, else true.
AndNode_match(node, pTrack) ==
    \A i \in 1..Len(node.m_nodes) : match(node.m_nodes[i], pTrack)

AndNode_toSql(node) ==
    concatSqlClauses(NonEmptyFragments(node.m_nodes), SqlAnd)

\* OrNode::match: true at the first child that matches, else false.
OrNode_match(node, pTrack) ==
    \E i \in 1..Len(node.m_nodes) : match(node.m_nodes[i], pTrack)

\* An Or without the special case for no children.
OrNode_toSqlNoFalse(node) ==
    concatSqlClauses(NonEmptyFragments(node.m_nodes), SqlOr)

OrNode_toSql(node) ==
    IF Len(node.m_nodes) = 0 THEN SqlFalse
    ELSE concatSqlClauses(NonEmptyFragments(node.m_nodes), SqlOr)

NotNode_match(node, pTrack) == ~match(node.m_pNode, pTrack)

\* A Not that does not wrap the child's fragment.
NotNode_toSqlNoParens(node) ==
    LET sql == toSql(node.m_pNode)
    IN  IF Len(sql) = 0 THEN <<>>
        ELSE <<"N", "O", "T", " ">> \o sql

NotNode_toSql(node) ==
    LET sql == toSql(node.m_pNode)
    IN  IF Len(sql) = 0 THEN <<>>
        ELSE SqlNotOpen \o sql \o <<")">>

\* The virtual call pNode->match(pTrack).
match(node, pTrack) ==
    CASE node.kind = "AndNode" -> AndNode_match(node, pTrack)
      [] node.kind = "OrNode" -> OrNode_match(node, pTrack)
      [] node.kind = "NotNode" -> NotNode_match(node, pTrack)
      [] node.kind \in {"NumericFilterNode", "DurationFilterNode"} ->
             NumericFilterNode_match(node, pTrack)
      [] node.kind = "BpmFilterNode" -> BpmFilterNode_match(node, pTrack)
      [] node.kind = "TextFilterNode" -> TextFilterNode_match(node, pTrack)

\* The virtual call pNode->toSql().
toSql(node) ==
    CASE node.kind = "AndNode" -> AndNode_toSql(node)
      [] node.kind = "OrNode" -> OrNode_toSql(node)
      [] node.kind = "NotNode" -> NotNode_toSql(node)
      [] node.kind \in {"NumericFilterNode", "DurationFilterNode"} ->
             NumericFilterNode_toSql(node)
      [] node.kind = "BpmFilterNode" -> BpmFilterNode_toSql(node)
      [] node.kind = "TextFilterNode" -> TextFilterNode_toSql(node)
      [] node.kind = "CrateFilterNode" -> CrateFilterNode_toSql(node)
      [] node.kind = "NoCrateFilterNode" -> NoCrateFilterNode_toSql(node)

AndNode_new(nodes) == [kind |-> "AndNode", m_nodes |-> nodes]

OrNode_new(nodes) == [kind |-> "OrNode", m_nodes |-> nodes]

NotNode_new(pNode) == [kind |-> "NotNode", m_pNode |-> pNode]

\* Number of nodes of a tree, and of a sequence of trees.
RECURSIVE NodeCount(_)
RECURSIVE NodeCountAll(_)
NodeCount(node) ==
    CASE node.kind \in {"AndNode", "OrNode"} -> 1 + NodeCountAll(node.m_nodes)
      [] node.kind = "NotNode" -> 1 + NodeCount(node.m_pNode)
      [] OTHER -> 1

NodeCountAll(nodes) ==
    IF Len(nodes) = 0 THEN 0
    ELSE NodeCount(nodes[1]) + NodeCountAll(Tail(nodes))

\* ------------------------------------------------------------ the SQL store

\* The store evaluates a WHERE predicate in three-valued logic: "T", "F" or
\* "N" (unknown); a row is selected when the predicate is "T".  The row of a
\* track holds NULL in a column exactly when the track has no value there.

Not3(t) == IF t = "T" THEN "F" ELSE IF t = "F" THEN "T" ELSE "N"

And3(ts) == IF "F" \in ts THEN "F" ELSE IF "N" \in ts THEN "N" ELSE "T"

Or3(ts) == IF "T" \in ts THEN "T" ELSE IF "N" \in ts THEN "N" ELSE "F"

\* Open parentheses minus closed ones in the first i characters.
ParenDepth(s, i) ==
    Cardinality({j \in 1..i : s[j] = "("}) - Cardinality({j \in 1..i : s[j] = ")"})

\* A predicate without parentheses: FALSE, c IS NULL, c <op> n,
\* c BETWEEN low AND high.
SqlAtomTruth(sql, row) ==
    LET words == Split(sql, " ")
        value == getTrackValueForColumn(row, words[1])
    IN  IF sql = SqlFalse THEN "F"
        ELSE IF Len(words) = 3 /\ words[2] = <<"I", "S">>
        THEN IF value.valid THEN "F" ELSE "T"
        ELSE IF ~value.valid THEN "N"
        ELSE IF Len(words) = 3
        THEN IF OperatorHolds(words[2], value.d, toDouble(words[3]).d)
             THEN "T" ELSE "F"
        ELSE IF /\ value.d >= toDouble(words[3]).d
                /\ value.d <= toDouble(words[5]).d
             THEN "T" ELSE "F"

\* Truth of a non-empty predicate: NOT (p), a list (p1) AND (p2) ... or
\* (p1) OR (p2) ... of parenthesized terms, or an atom.
RECURSIVE SqlTruth(_, _)
SqlTruth(sql, row) ==
    IF StartsWith(sql, SqlNotOpen)
    THEN Not3(SqlTruth(SubSeq(sql, Len(SqlNotOpen) + 1, Len(sql) - 1), row))
    ELSE IF sql[1] = "("
    THEN LET ends   == {i \in 1..Len(sql) :
                           sql[i] = ")" /\ ParenDepth(sql, i) = 0}
             starts == {i \in 1..Len(sql) :
                           sql[i] = "(" /\ ParenDepth(sql, i) = 1}
             open(e) == CHOOSE b \in starts :
                           b < e /\ \A c \in starts : c < e => c <= b
             truths == {SqlTruth(SubSeq(sql, open(e) + 1, e - 1), row) :
                           e \in ends}
             first  == CHOOSE e \in ends : \A f \in ends : e <= f
             isAnd  == /\ Cardinality(ends) > 1
                       /\ SubSeq(sql, first + 2, first + 4) = SqlAnd
         IN  IF isAnd THEN And3(truths) ELSE Or3(truths)
    ELSE SqlAtomTruth(sql, row)

\* SELECT ... WHERE <fragment> returns the row; the caller reads an empty
\* fragment as "no condition".
SqlSelects(sql, row) == Len(sql) = 0 \/ SqlTruth(sql, row) = "T"

\* ------------------------------------------------------------------- state

VARIABLES
    stack,        \* the nodes built and not yet owned by a parent, oldest first
    ctorArgs,     \* history: the argument each stack entry was constructed from
    matchCalled,  \* match was called on the top node since it was built
    matchTrack,   \* the track of that call
    matchResult,  \* what the call returned
    sqlCalled,    \* toSql was called on the top node since it was built
    sqlResult,    \* what the call returned
    s_relativeRange,  \* BpmFilterNode::s_relativeRange
    rangeCalls,   \* history: the last setBpmRelativeRange call, if any
    crashed,      \* the calls that did not return, when the process is gone
    crateTracks,  \* the crate storage: the ids of the tracks of each crate
    queryCount,   \* history: the track queries run on the crate storage
    snapshot,     \* history: the ids the first of these queries returned
    firstMatch,   \* history: per track, what the first match call returned
                  \* and whether match was called on it again
    firstSql,     \* history: what the first toSql call returned, if any,
                  \* and whether toSql was called again
    threads       \* the match call each thread is in, and how far it is

\* The shared relative range and the calls that did not return.
bpmEnv == <<s_relativeRange, rangeCalls, crashed>>

\* The crate storage, the threads, and the history of the calls made on a
\* node with a cache.
crateEnv == <<crateTracks, queryCount, snapshot, firstMatch, firstSql, threads>>

\* The state outside the filter trees.
env == <<bpmEnv, crateEnv>>

\* No call has failed to return.
Running == crashed = <<>>

vars == <<stack, ctorArgs, matchCalled, matchTrack, matchResult, sqlCalled,
          sqlResult, env>>

Top == stack[Len(stack)]

NoTrack == [c \in Columns |-> InvalidVariant]

\* The names of the crates of the storage.
Crates == {<<"a">>, <<"b">>}

\* The ids of the tracks of the library.
TrackIds == 1..MaxTrackId

\* The threads that call match on a shared node.
Threads == 1..MaxThreads

\* A thread that is in no call.
Idle == [pc |-> "idle"]

NoCalls ==
    /\ matchCalled' = FALSE
    /\ matchTrack' = NoTrack
    /\ matchResult' = FALSE
    /\ sqlCalled' = FALSE
    /\ sqlResult' = <<>>

Init ==
    /\ stack = <<>>
    /\ ctorArgs = <<>>
    /\ matchCalled = FALSE
    /\ matchTrack = NoTrack
    /\ matchResult = FALSE
    /\ sqlCalled = FALSE
    /\ sqlResult = <<>>
    /\ s_relativeRange = kRelativeRangeDefault
    /\ rangeCalls = <<>>
    /\ crashed = <<>>
    /\ crateTracks = [name \in Crates |-> {}]
    /\ queryCount = 0
    /\ snapshot = {}
    /\ firstMatch = <<>>
    /\ firstSql = <<>>
    /\ threads = [t \in Threads |-> Idle]

\* The column lists the leaves are constructed with.
ColumnLists == {<<LIBRARYTABLE_BPM>>, <<LIBRARYTABLE_BPM, LIBRARYTABLE_RATING>>}

\* The characters of the arguments of SpecNumeric.
ArgChars == {"<", ">", "=", "-", "1", "2"}

RECURSIVE StringsUpTo(_)
StringsUpTo(n) ==
    IF n = 0 THEN {<<>>}
    ELSE LET shorter == StringsUpTo(n - 1)
         IN  shorter \cup {Append(s, c) : s \in shorter, c \in ArgChars}

\* Every argument of SpecNumeric: the strings over ArgChars and the
\* missing-field term.
NumericArguments == StringsUpTo(MaxArgLen) \cup {kMissingFieldSearchTerm}

\* The leaves of the trees of Spec and SpecToSql: an operator query, the
\* missing-field term over two columns, a range with its bounds in the
\* wrong order.
TreeLeaves ==
    { [sqlColumns |-> <<LIBRARYTABLE_BPM>>, argument |-> <<"<", "=", "1">>],
      [sqlColumns |-> <<LIBRARYTABLE_BPM, LIBRARYTABLE_RATING>>,
       argument   |-> kMissingFieldSearchTerm],
      [sqlColumns |-> <<LIBRARYTABLE_BPM>>, argument |-> <<"2", "-", "1">>] }

\* The tracks the trees of Spec are matched against.
TreeTracks ==
    {t \in Tracks : t[LIBRARYTABLE_RATING] \in {InvalidVariant, Variant(0)}}

\* new NumericFilterNode(sqlColumns, argument)
NewNumericFilterNode(sqlColumns, argument) ==
    /\ stack' = Append(stack,
                    NumericFilterNode_init(NumericFilterNode_new(sqlColumns),
                                           argument))
    /\ ctorArgs' = Append(ctorArgs, argument)
    /\ NoCalls
    /\ UNCHANGED env

\* The last k entries of the stack become the children of a new parent.
Children(k) == SubSeq(stack, Len(stack) - k + 1, Len(stack))

Adopt(k, parent) ==
    /\ stack' = Append(SubSeq(stack, 1, Len(stack) - k), parent)
    /\ ctorArgs' = Append(SubSeq(ctorArgs, 1, Len(stack) - k), <<>>)

\* new AndNode with the last k nodes built as its children
NewAndNode(k) ==
    /\ k \in 0..Len(stack)
    /\ Adopt(k, AndNode_new(Children(k)))
    /\ NoCalls
    /\ UNCHANGED env

\* new OrNode with the last k nodes built as its children
NewOrNode(k) ==
    /\ k \in 0..Len(stack)
    /\ Adopt(k, OrNode_new(Children(k)))
    /\ NoCalls
    /\ UNCHANGED env

\* new NotNode with the last node built as its child
NewNotNode ==
    /\ Len(stack) >= 1
    /\ Adopt(1, NotNode_new(Top))
    /\ NoCalls
    /\ UNCHANGED env

\* pNode->match(pTrack) on the last node built
Match(pTrack) ==
    /\ Len(stack) >= 1
    /\ matchCalled' = TRUE
    /\ matchTrack' = pTrack
    /\ matchResult' = match(Top, pTrack)
    /\ UNCHANGED <<stack, ctorArgs, sqlCalled, sqlResult, env>>

\* pNode->toSql() on the last node built
ToSql ==
    /\ Len(stack) >= 1
    /\ sqlCalled' = TRUE
    /\ sqlResult' = toSql(Top)
    /\ UNCHANGED <<stack, ctorArgs, matchCalled, matchTrack, matchResult, env>>

\* The last node built is destroyed, with the nodes it owns.
DeleteNode ==
    /\ Len(stack) >= 1
    /\ stack' = SubSeq(stack, 1, Len(stack) - 1)
    /\ ctorArgs' = SubSeq(ctorArgs, 1, Len(stack) - 1)
    /\ NoCalls
    /\ UNCHANGED env

\* The caller may build one more node.
CanBuild(limit) == NodeCountAll(stack) < limit

\* Filter trees over a few leaves, built bottom-up, matched and rendered.
Next ==
    \/ /\ CanBuild(MaxNodes)
       /\ \E leaf \in TreeLeaves :
              NewNumericFilterNode(leaf.sqlColumns, leaf.argument)
    \/ CanBuild(MaxNodes) /\ \E k \in 0..MaxNodes : NewAndNode(k)
    \/ CanBuild(MaxNodes) /\ \E k \in 0..MaxNodes : NewOrNode(k)
    \/ CanBuild(MaxNodes) /\ NewNotNode
    \/ \E pTrack \in TreeTracks : Match(pTrack)
    \/ ToSql
    \/ DeleteNode

Spec == Init /\ [][Next]_vars

\* Larger filter trees, rendered only.
NextToSql ==
    \/ /\ CanBuild(MaxSqlNodes)
       /\ \E leaf \in TreeLeaves :
              NewNumericFilterNode(leaf.sqlColumns, leaf.argument)
    \/ CanBuild(MaxSqlNodes) /\ \E k \in 0..MaxSqlNodes : NewAndNode(k)
    \/ CanBuild(MaxSqlNodes) /\ \E k \in 0..MaxSqlNodes : NewOrNode(k)
    \/ CanBuild(MaxSqlNodes) /\ NewNotNode
    \/ ToSql
    \/ DeleteNode

SpecToSql == Init /\ [][NextToSql]_vars

\* One numeric leaf at a time, over every argument.
NextNumeric ==
    \/ /\ stack = <<>>
       /\ \E sqlColumns \in ColumnLists, argument \in NumericArguments :
              NewNumericFilterNode(sqlColumns, argument)
    \/ \E pTrack \in Tracks : Match(pTrack)
    \/ ToSql
    \/ DeleteNode

SpecNumeric == Init /\ [][NextNumeric]_vars

\* The characters of the arguments of SpecDuration.
DurationChars == {"0", "1", "3", "7", "m", ":", "s"}

RECURSIVE DurationStringsUpTo(_)
DurationStringsUpTo(n) ==
    IF n = 0 THEN {<<>>}
    ELSE LET shorter == DurationStringsUpTo(n - 1)
         IN  shorter \cup {Append(s, c) : s \in shorter, c \in DurationChars}

\* new DurationFilterNode(sqlColumns, argument)
NewDurationFilterNode(sqlColumns, argument) ==
    /\ stack' = Append(stack,
                    NumericFilterNode_init(DurationFilterNode_new(sqlColumns),
                                           argument))
    /\ ctorArgs' = Append(ctorArgs, argument)
    /\ NoCalls
    /\ UNCHANGED env

\* One duration leaf at a time, over every argument.
NextDuration ==
    \/ /\ stack = <<>>
       /\ \E argument \in DurationStringsUpTo(MaxDurationLen) :
              NewDurationFilterNode(<<LIBRARYTABLE_DURATION>>, argument)
    \/ ToSql
    \/ DeleteNode

SpecDuration == Init /\ [][NextDuration]_vars

\* The characters of the arguments of SpecBpm.
BpmChars == {"0", "1", ".", "<", "=", "-"}

RECURSIVE BpmStringsUpTo(_)
BpmStringsUpTo(n) ==
    IF n = 0 THEN {<<>>}
    ELSE LET shorter == BpmStringsUpTo(n - 1)
         IN  shorter \cup {Append(s, c) : s \in shorter, c \in BpmChars}

\* Every argument of SpecBpm: the strings over BpmChars with fewer decimals
\* than the fixed-point representation keeps, so that the bounds of the core
\* range are held exactly, and the missing-field term.
BpmArguments ==
    {s \in BpmStringsUpTo(MaxBpmArgLen) :
        \A i \in 1..Len(s) : s[i] = "." => Len(s) - i < FracDigits}
        \cup {kMissingFieldSearchTerm}

\* The tempos of the tracks the tempo leaves are matched against: around
\* each whole number, the bounds of the core ranges of one and two decimals.
BpmFractions == {0, 5, 50, 100, 150, 950}

BpmValues == {i * Scale + f : i \in 0..MaxBpm, f \in BpmFractions}

BpmTracks ==
    {[c \in Columns |-> IF c = LIBRARYTABLE_BPM THEN v ELSE InvalidVariant] :
        v \in {InvalidVariant} \cup {Variant(d) : d \in BpmValues}}

\* new BpmFilterNode(argument, fuzzy, negate): the node is built, or the
\* constructor does not return.
NewBpmFilterNode(argument, fuzzy, negate) ==
    /\ \E o \in BpmFilterNode_ctor(argument, fuzzy, negate, s_relativeRange) :
           IF o.returned
           THEN /\ stack' = Append(stack, o.node)
                /\ ctorArgs' = Append(ctorArgs,
                                   [argument      |-> argument,
                                    relativeRange |-> s_relativeRange])
                /\ UNCHANGED crashed
           ELSE /\ crashed' = Append(crashed,
                                  [argument |-> argument,
                                   fuzzy    |-> fuzzy,
                                   negate   |-> negate])
                /\ UNCHANGED <<stack, ctorArgs>>
    /\ NoCalls
    /\ UNCHANGED <<s_relativeRange, rangeCalls, crateEnv>>

\* A setter after which every fuzzy leaf built so far has the bounds of the
\* new relative range, as if the leaves read the shared value when used.
SetBpmRelativeRangeRebuilding(range) ==
    LET after == BpmFilterNode_setBpmRelativeRange(s_relativeRange, range)
        rebuilt(i) ==
            IF stack[i].kind = "BpmFilterNode" /\ stack[i].m_fuzzy
            THEN (CHOOSE o \in BpmFilterNode_ctor(ctorArgs[i].argument, TRUE,
                                                  stack[i].m_negate, after) :
                      o.returned).node
            ELSE stack[i]
    IN  /\ s_relativeRange' = after
        /\ rangeCalls' = <<[range |-> range, before |-> s_relativeRange]>>
        /\ stack' = [i \in 1..Len(stack) |-> rebuilt(i)]
        /\ UNCHANGED <<ctorArgs, matchCalled, matchTrack, matchResult,
                       sqlCalled, sqlResult, crashed, crateEnv>>

\* BpmFilterNode::setBpmRelativeRange(range)
SetBpmRelativeRange(range) ==
    /\ s_relativeRange' = BpmFilterNode_setBpmRelativeRange(s_relativeRange, range)
    /\ rangeCalls' = <<[range |-> range, before |-> s_relativeRange]>>
    /\ UNCHANGED <<stack, ctorArgs, matchCalled, matchTrack, matchResult,
                   sqlCalled, sqlResult, crashed, crateEnv>>

\* One tempo leaf at a time, over every argument, with the default relative
\* range.
NextBpm ==
    \/ /\ Running /\ stack = <<>>
       /\ \E argument \in BpmArguments, fuzzy \in BOOLEAN, negate \in BOOLEAN :
              NewBpmFilterNode(argument, fuzzy, negate)
    \/ Running /\ \E pTrack \in BpmTracks : Match(pTrack)
    \/ Running /\ ToSql
    \/ Running /\ DeleteNode

SpecBpm == Init /\ [][NextBpm]_vars

\* The arguments of the tempo leaves of SpecBpmRange: whole numbers, a
\* number with a decimal, a range, an operator query.
RangeArguments ==
    { <<"4">>, <<"2", ".", "5">>, <<"1", "1">>, <<"2", "-", "4">>,
      <<"<", "4">> }

\* The values setBpmRelativeRange is called with.
RelativeRanges ==
    {0 - kRelativeRangeDefault, 0, kRelativeRangeDefault, Scale \div 2}

\* One tempo leaf at a time, the shared relative range set at any time.
NextBpmRange ==
    \/ Running /\ \E range \in RelativeRanges : SetBpmRelativeRange(range)
    \/ /\ Running /\ stack = <<>>
       /\ \E argument \in RangeArguments, fuzzy \in BOOLEAN, negate \in BOOLEAN :
              NewBpmFilterNode(argument, fuzzy, negate)
    \/ Running /\ \E pTrack \in BpmTracks : Match(pTrack)
    \/ Running /\ ToSql
    \/ Running /\ DeleteNode

SpecBpmRange == Init /\ [][NextBpmRange]_vars

\* The arguments of the tempo leaves of SpecBpmPair: one value written with
\* no, one and two decimals, with and without trailing zeros.
PairArguments ==
    { <<"1">>, <<"1", ".">>, <<"1", ".", "0">>, <<"1", ".", "1">>,
      <<"1", ".", "1", "0">>, <<"1", ".", "1", "1">>, <<"1", ".", "0", "1">>,
      <<"=", "1", ".", "1">> }

\* The caller holds at most this many tempo leaves at once in SpecBpmPair.
MaxPair == 2

\* Two tempo leaves side by side, rendered.
NextBpmPair ==
    \/ /\ Running /\ Len(stack) < MaxPair
       /\ \E argument \in PairArguments, negate \in BOOLEAN :
              NewBpmFilterNode(argument, FALSE, negate)
    \/ Running /\ ToSql
    \/ Running /\ DeleteNode

SpecBpmPair == Init /\ [][NextBpmPair]_vars

\* The name patterns of the crate leaves: one crate, every crate, none.
CratePatterns == {<<"a">>, <<"%">>, <<"c">>}

\* The track with the given id; its tempo is one less than the id, so that
\* track 1 has no tempo.
CrateTrackOf(id) ==
    [c \in Columns \cup {CRATETABLE_ID} |->
        IF c = CRATETABLE_ID THEN id
        ELSE IF c = LIBRARYTABLE_BPM THEN Variant((id - 1) * Scale)
        ELSE InvalidVariant]

\* pTrack->getId()
getId(pTrack) == pTrack[CRATETABLE_ID]

Range(seq) == {seq[i] : i \in 1..Len(seq)}

IsCached(node) == node.kind \in {"CrateFilterNode", "NoCrateFilterNode"}

\* new CrateFilterNode(pCrateStorage, crateNameLike)
NewCrateFilterNode(crateNameLike) ==
    /\ stack' = Append(stack, CrateFilterNode_new(crateNameLike))
    /\ ctorArgs' = Append(ctorArgs, crateNameLike)
    /\ NoCalls
    /\ UNCHANGED env

\* new NoCrateFilterNode(pCrateStorage)
NewNoCrateFilterNode ==
    /\ stack' = Append(stack, NoCrateFilterNode_new)
    /\ ctorArgs' = Append(ctorArgs, <<>>)
    /\ NoCalls
    /\ UNCHANGED env

\* pNode->match(pTrack) on the last node built, which may hold a cache: the
\* whole call, as one thread runs it.
MatchCached(pTrack) ==
    /\ Len(stack) >= 1
    /\ LET node   == Top
           fill   == IF IsCached(node) THEN CrateNode_fill(node, crateTracks)
                     ELSE [queries |-> 0, node |-> node]
           result == IF IsCached(node)
                     THEN CrateNode_search(fill.node, getId(pTrack))
                     ELSE match(node, pTrack)
       IN  /\ stack' = [stack EXCEPT ![Len(stack)] = fill.node]
           /\ matchCalled' = TRUE
           /\ matchTrack' = pTrack
           /\ matchResult' = result
           /\ queryCount' = queryCount + fill.queries
           /\ snapshot' = IF fill.queries > 0 /\ queryCount = 0
                          THEN Range(CrateNode_select(node, crateTracks))
                          ELSE snapshot
           /\ firstMatch' =
                  IF getId(pTrack) \in DOMAIN firstMatch
                  THEN [firstMatch EXCEPT ![getId(pTrack)].again = TRUE]
                  ELSE firstMatch
                           @@ (getId(pTrack) :> [result |-> result,
                                                 again  |-> FALSE])
    /\ UNCHANGED <<ctorArgs, sqlCalled, sqlResult, bpmEnv, crateTracks,
                   firstSql, threads>>

\* pNode->toSql() on the last node built, the first result kept.
ToSqlCached ==
    /\ Len(stack) >= 1
    /\ sqlCalled' = TRUE
    /\ sqlResult' = toSql(Top)
    /\ firstSql' = IF firstSql = <<>>
                   THEN <<[result |-> toSql(Top), again |-> FALSE]>>
                   ELSE <<[firstSql[1] EXCEPT !.again = TRUE]>>
    /\ UNCHANGED <<stack, ctorArgs, matchCalled, matchTrack, matchResult,
                   bpmEnv, crateTracks, queryCount, snapshot, firstMatch,
                   threads>>

\* CrateStorage::onAddingCrateTracks for one track
AddCrateTrack(name, id) ==
    /\ id \notin crateTracks[name]
    /\ crateTracks' = [crateTracks EXCEPT ![name] = @ \cup {id}]
    /\ UNCHANGED <<stack, ctorArgs, matchCalled, matchTrack, matchResult,
                   sqlCalled, sqlResult, bpmEnv, queryCount, snapshot,
                   firstMatch, firstSql, threads>>

\* CrateStorage::onRemovingCrateTracks for one track
RemoveCrateTrack(name, id) ==
    /\ id \in crateTracks[name]
    /\ crateTracks' = [crateTracks EXCEPT ![name] = @ \ {id}]
    /\ UNCHANGED <<stack, ctorArgs, matchCalled, matchTrack, matchResult,
                   sqlCalled, sqlResult, bpmEnv, queryCount, snapshot,
                   firstMatch, firstSql, threads>>

\* One node for the whole behaviour, a crate leaf, a not-in-crate leaf or a
\* tempo leaf; match and toSql are called on it in any order while the
\* crate storage changes.
NextCrate ==
    \/ /\ Running /\ stack = <<>>
       /\ \E crateNameLike \in CratePatterns : NewCrateFilterNode(crateNameLike)
    \/ Running /\ stack = <<>> /\ NewNoCrateFilterNode
    \/ /\ Running /\ stack = <<>>
       /\ \E argument \in RangeArguments, fuzzy \in BOOLEAN :
              NewBpmFilterNode(argument, fuzzy, FALSE)
    \/ Running /\ \E id \in TrackIds : MatchCached(CrateTrackOf(id))
    \/ Running /\ ToSqlCached
    \/ \E name \in Crates, id \in TrackIds : AddCrateTrack(name, id)
    \/ \E name \in Crates, id \in TrackIds : RemoveCrateTrack(name, id)

SpecCrate == Init /\ [][NextCrate]_vars

LIBRARYTABLE_ARTIST == <<"a", "r", "t", "i", "s", "t">>

LIBRARYTABLE_TITLE == <<"t", "i", "t", "l", "e">>

TextChars == {"a", "A", " ", "_"}

RECURSIVE TextStringsUpTo(_)
TextStringsUpTo(n) ==
    IF n = 0 THEN {<<>>}
    ELSE LET shorter == TextStringsUpTo(n - 1)
         IN  shorter \cup {Append(s, c) : s \in shorter, c \in TextChars}

\* A QVariant that holds a string.
TextVariant(s) == [valid |-> TRUE, s |-> s]

InvalidTextVariant == [valid |-> FALSE, s |-> <<>>]

\* A track with any artist, and with a title or none.
TextTracks ==
    {(LIBRARYTABLE_ARTIST :> artist) @@ (LIBRARYTABLE_TITLE :> title) :
        artist \in {InvalidTextVariant}
                       \cup {TextVariant(s) : s \in TextStringsUpTo(MaxTextLen)},
        title \in {InvalidTextVariant, TextVariant(<<"a", " ">>)}}

TextColumnLists ==
    {<<LIBRARYTABLE_ARTIST>>, <<LIBRARYTABLE_ARTIST, LIBRARYTABLE_TITLE>>}

\* new TextFilterNode(database, sqlColumns, argument, matchMode)
NewTextFilterNode(sqlColumns, argument, matchMode) ==
    /\ stack' = Append(stack,
                    TextFilterNode_new(sqlColumns, argument, matchMode))
    /\ ctorArgs' = Append(ctorArgs, argument)
    /\ NoCalls
    /\ UNCHANGED env

\* One text leaf at a time, over every argument shorter than the longest text.
NextText ==
    \/ /\ stack = <<>>
       /\ \E sqlColumns \in TextColumnLists,
             argument \in TextStringsUpTo(MaxTextLen - 1),
             matchMode \in {"Contains", "Equals"} :
              NewTextFilterNode(sqlColumns, argument, matchMode)
    \/ \E pTrack \in TextTracks : Match(pTrack)
    \/ ToSql
    \/ DeleteNode

SpecText == Init /\ [][NextText]_vars

\* A thread is in a call of match that has not returned.
InCall(t) == threads[t].pc \notin {"idle", "done"}

\* Thread t is about to push an id back.
IsPushing(t) == threads[t].pc = "push" /\ threads[t].tracks # <<>>

\* Thread t enters match(pTrack) on the shared node and reads the flag.  The
\* track is not looked at before the search and is drawn there.
MatchBegin(t) ==
    /\ Len(stack) >= 1 /\ IsCached(Top)
    /\ threads[t] = Idle
    /\ threads' = [threads EXCEPT ![t] =
                      [pc          |-> IF CrateNode_needsFill(Top)
                                       THEN "query" ELSE "search",
                       trackId     |-> 0,
                       initialized |-> Top.m_matchInitialized,
                       tracks      |-> <<>>,
                       result      |-> FALSE]]
    /\ UNCHANGED <<stack, ctorArgs, matchCalled, matchTrack, matchResult,
                   sqlCalled, sqlResult, bpmEnv, crateTracks, queryCount,
                   snapshot, firstMatch, firstSql>>

\* Thread t runs the query of the storage.
MatchQuery(t) ==
    /\ threads[t].pc = "query"
    /\ threads' = [threads EXCEPT
                      ![t].pc = "push",
                      ![t].tracks = CrateNode_select(Top, crateTracks)]
    /\ queryCount' = queryCount + 1
    /\ snapshot' = IF queryCount = 0
                   THEN Range(CrateNode_select(Top, crateTracks))
                   ELSE snapshot
    /\ UNCHANGED <<stack, ctorArgs, matchCalled, matchTrack, matchResult,
                   sqlCalled, sqlResult, bpmEnv, crateTracks, firstMatch,
                   firstSql>>

\* Thread t pushes the next id back.  While another thread pushes or
\* searches, the vector is written without synchronization: the id is
\* appended, or it is lost, or the call does not return.
MatchPush(t) ==
    /\ IsPushing(t)
    /\ LET trackId == Head(threads[t].tracks)
           raced   == \E u \in Threads \ {t} :
                          IsPushing(u) \/ threads[u].pc = "search"
           pushed  == [stack EXCEPT ![Len(stack)] =
                          CrateNode_push_back(Top, trackId)]
       IN  \/ /\ stack' = pushed
              /\ threads' = [threads EXCEPT ![t].tracks = Tail(@)]
              /\ UNCHANGED crashed
           \/ /\ raced
              /\ UNCHANGED stack
              /\ threads' = [threads EXCEPT ![t].tracks = Tail(@)]
              /\ UNCHANGED crashed
           \/ /\ raced
              /\ crashed' = Append(crashed, [thread |-> t, pc |-> "push"])
              /\ UNCHANGED <<stack, threads>>
    /\ UNCHANGED <<ctorArgs, matchCalled, matchTrack, matchResult, sqlCalled,
                   sqlResult, s_relativeRange, rangeCalls, crateTracks,
                   queryCount, snapshot, firstMatch, firstSql>>

\* Thread t has pushed every id and sets the flag.
MatchSetInitialized(t) ==
    /\ threads[t].pc = "push" /\ threads[t].tracks = <<>>
    /\ stack' = [stack EXCEPT ![Len(stack)] = CrateNode_setInitialized(Top)]
    /\ threads' = [threads EXCEPT ![t].pc = "search"]
    /\ UNCHANGED <<ctorArgs, matchCalled, matchTrack, matchResult, sqlCalled,
                   sqlResult, bpmEnv, crateTracks, queryCount, snapshot,
                   firstMatch, firstSql>>

\* Thread t searches the vector and returns.  While another thread pushes,
\* the vector is read without synchronization: the call returns either
\* boolean, or it does not return.
MatchSearch(t, pTrack) ==
    /\ threads[t].pc = "search"
    /\ LET raced == \E u \in Threads \ {t} : IsPushing(u)
       IN  \/ /\ threads' = [threads EXCEPT
                                ![t].pc = "done",
                                ![t].trackId = getId(pTrack),
                                ![t].result =
                                    CrateNode_search(Top, getId(pTrack))]
              /\ UNCHANGED crashed
           \/ /\ raced
              /\ \E result \in BOOLEAN :
                     threads' = [threads EXCEPT ![t].pc = "done",
                                                ![t].trackId = getId(pTrack),
                                                ![t].result = result]
              /\ UNCHANGED crashed
           \/ /\ raced
              /\ crashed' = Append(crashed, [thread |-> t, pc |-> "search"])
              /\ UNCHANGED threads
    /\ UNCHANGED <<stack, ctorArgs, matchCalled, matchTrack, matchResult,
                   sqlCalled, sqlResult, s_relativeRange, rangeCalls,
                   crateTracks, queryCount, snapshot, firstMatch, firstSql>>

\* No thread has entered match yet.
BeforeFanOut == \A t \in Threads : threads[t] = Idle

\* The threads are numbered in the order in which they enter match.
NextToEnter(t) == \A u \in Threads : u < t => threads[u] # Idle

\* One crate or not-in-crate leaf shared by the threads.  Before the first
\* thread enters match, the tracks of a crate change and the caller may call
\* match once itself; then each thread calls match once, the steps
\* interleaved.
NextCrateThreads ==
    \/ /\ Running /\ stack = <<>>
       /\ \E crateNameLike \in CratePatterns : NewCrateFilterNode(crateNameLike)
    \/ Running /\ stack = <<>> /\ NewNoCrateFilterNode
    \/ /\ Running /\ BeforeFanOut /\ ~matchCalled
       /\ \E id \in TrackIds : MatchCached(CrateTrackOf(id))
    \/ /\ BeforeFanOut
       /\ \E id \in TrackIds : AddCrateTrack(<<"a">>, id)
    \/ /\ BeforeFanOut
       /\ \E id \in TrackIds : RemoveCrateTrack(<<"a">>, id)
    \/ /\ Running
       /\ \E t \in Threads : NextToEnter(t) /\ MatchBegin(t)
    \/ Running /\ \E t \in Threads : MatchQuery(t)
    \/ Running /\ \E t \in Threads : MatchPush(t)
    \/ Running /\ \E t \in Threads : MatchSetInitialized(t)
    \/ /\ Running
       /\ \E t \in Threads, id \in TrackIds : MatchSearch(t, CrateTrackOf(id))

SpecCrateThreads == Init /\ [][NextCrateThreads]_vars

\* The strings over ArgChars with one hyphen in them, as they are and after
\* each comparison operator.
OperatorRangeArguments ==
    {op \o s : op \in {<<>>, <<"<", "=">>, <<">", "=">>, <<"=">>, <<"<">>, <<">">>},
               s \in {r \in StringsUpTo(MaxArgLen) : Len(Split(r, "-")) = 2}}

\* One numeric leaf at a time, its argument a string with a hyphen, with
\* or without a comparison operator in front.
NextOperatorRange ==
    \/ /\ stack = <<>>
       /\ \E sqlColumns \in ColumnLists, argument \in OperatorRangeArguments :
              NewNumericFilterNode(sqlColumns, argument)
    \/ \E pTrack \in Tracks : Match(pTrack)
    \/ ToSql
    \/ DeleteNode

SpecOperatorRange == Init /\ [][NextOperatorRange]_vars

\* The arguments of the tempo leaves of SpecBpmShared: a whole number and a
\* number with a decimal.
SharedArguments == { <<"4">>, <<"2", ".", "5">> }

\* The tracks the leaves of SpecBpmShared are matched against: no tempo,
\* and the even whole tempos.
SharedTracks == {t \in BpmTracks : t[LIBRARYTABLE_BPM].d % (2 * Scale) = 0}

\* Tempo leaves built one after the other and kept, the shared relative
\* range set at any time between and after the constructions.
NextBpmShared ==
    \/ Running /\ \E range \in RelativeRanges : SetBpmRelativeRange(range)
    \/ /\ Running /\ Len(stack) < MaxPair
       /\ \E argument \in SharedArguments, fuzzy \in BOOLEAN :
              NewBpmFilterNode(argument, fuzzy, FALSE)
    \/ Running /\ \E pTrack \in SharedTracks : Match(pTrack)
    \/ Running /\ ToSql
    \/ Running /\ DeleteNode

SpecBpmShared == Init /\ [][NextBpmShared]_vars

\* ------------------------------------------------------------------ claims

\* The argument the last node built was constructed from.
TopArg == ctorArgs[Len(stack)]

TopIs(kind) == Len(stack) >= 1 /\ Top.kind = kind

\* A numeric leaf with none of its three mode flags set.
IsInertNumeric(node) ==
    /\ node.kind = "NumericFilterNode"
    /\ ~node.m_bNullQuery /\ ~node.m_bOperatorQuery /\ ~node.m_bRangeQuery

\* A numeric leaf in null-query mode over more than one column.
IsNullOverSeveralColumns(node) ==
    /\ node.kind = "NumericFilterNode"
    /\ node.m_bNullQuery
    /\ Len(node.m_sqlColumns) > 1

\* The tree holds one of the two leaves the equivalence excepts.
RECURSIVE HoldsExceptedLeaf(_)
HoldsExceptedLeaf(node) ==
    CASE node.kind \in {"AndNode", "OrNode"} ->
             \E i \in 1..Len(node.m_nodes) : HoldsExceptedLeaf(node.m_nodes[i])
      [] node.kind = "NotNode" -> HoldsExceptedLeaf(node.m_pNode)
      [] OTHER -> IsInertNumeric(node) \/ IsNullOverSeveralColumns(node)

\* The track holds a value in every column: the store's predicate is then
\* two-valued, no comparison meets a NULL.
HoldsEveryColumn(pTrack) == \A c \in Columns : pTrack[c].valid

\* C1: for every tree without an inert numeric leaf and without a null-mode
\* leaf over several columns, and every track, match returns what the store
\* decides for the fragment toSql returns (an empty fragment selecting every
\* row).  Stated for the tracks that hold a value in every column, so that a
\* violation does not rest on how the store treats NULL.
C1_MatchEqualsSql ==
    (/\ Len(stack) >= 1 /\ matchCalled /\ sqlCalled
     /\ ~HoldsExceptedLeaf(Top)
     /\ HoldsEveryColumn(matchTrack))
        => (matchResult = SqlSelects(sqlResult, matchTrack))

\* C2: AndNode::match is true exactly when every child matches, so an And
\* without children matches every track; the fragment of an And without
\* children is the empty string.
C2_AndNode ==
    TopIs("AndNode") =>
        /\ matchCalled =>
               matchResult =
                   (\A i \in 1..Len(Top.m_nodes) : match(Top.m_nodes[i], matchTrack))
        /\ (matchCalled /\ Top.m_nodes = <<>>) => matchResult = TRUE
        /\ (sqlCalled /\ Top.m_nodes = <<>>) => sqlResult = <<>>

C2_Witness ==
    /\ TopIs("AndNode") /\ Top.m_nodes = <<>>
    /\ matchCalled /\ matchResult = TRUE
    /\ sqlCalled /\ sqlResult = <<>>

\* C3: OrNode::match is true exactly when some child matches, so an Or
\* without children matches no track; the fragment of an Or without children
\* is the text FALSE, not the empty string.
C3_OrNode ==
    TopIs("OrNode") =>
        /\ matchCalled =>
               matchResult =
                   (\E i \in 1..Len(Top.m_nodes) : match(Top.m_nodes[i], matchTrack))
        /\ (matchCalled /\ Top.m_nodes = <<>>) => matchResult = FALSE
        /\ (sqlCalled /\ Top.m_nodes = <<>>) =>
               sqlResult = <<"F", "A", "L", "S", "E">>

C3_Witness ==
    /\ TopIs("OrNode") /\ Top.m_nodes = <<>>
    /\ matchCalled /\ matchResult = FALSE
    /\ sqlCalled /\ sqlResult = <<"F", "A", "L", "S", "E">>

\* C4: NotNode::match negates the match of its child; the fragment of a Not
\* is NOT (<child fragment>) when the child's fragment is not empty and the
\* empty string when it is.
C4_NotNode ==
    TopIs("NotNode") =>
        /\ matchCalled => matchResult = ~match(Top.m_pNode, matchTrack)
        /\ sqlCalled =>
               LET child == toSql(Top.m_pNode)
               IN  IF child = <<>> THEN sqlResult = <<>>
                   ELSE sqlResult = <<"N", "O", "T", " ", "(">> \o child \o <<")">>

C4_Witness ==
    /\ TopIs("NotNode")
    /\ toSql(Top.m_pNode) # <<>>
    /\ matchCalled /\ matchResult = TRUE
    /\ sqlCalled /\ sqlResult[1] = "N" /\ sqlResult[Len(sqlResult)] = ")"

\* Each fragment in its own pair of parentheses, then joined with the
\* operator.
EachWrapped(fragments, op) ==
    Join([i \in 1..Len(fragments) |-> <<"(">> \o fragments[i] \o <<")">>],
         <<" ">> \o op \o <<" ">>)

TopOp == IF Top.kind = "AndNode" THEN <<"A", "N", "D">> ELSE <<"O", "R">>

TopIsComposite == Len(stack) >= 1 /\ Top.kind \in {"AndNode", "OrNode"}

\* C5 as claimed: a composite with at least one non-empty child fragment
\* renders every non-empty child fragment in its own parentheses, joined
\* with the operator, also when there is exactly one.
C5_WrapsEveryChild ==
    (TopIsComposite /\ sqlCalled /\ Len(NonEmptyFragments(Top.m_nodes)) >= 1)
        => sqlResult = EachWrapped(NonEmptyFragments(Top.m_nodes), TopOp)

\* C5 amended: with two or more non-empty child fragments each is rendered
\* in its own parentheses and they are joined with the operator, with
\* nothing around the whole; with exactly one the composite's fragment is
\* that child's fragment as it is, without parentheses; empty child
\* fragments are dropped.
C5_WrapsWhenSeveral ==
    (TopIsComposite /\ sqlCalled) =>
        LET fragments == NonEmptyFragments(Top.m_nodes)
        IN  /\ Len(fragments) >= 2 => sqlResult = EachWrapped(fragments, TopOp)
            /\ Len(fragments) = 1 => sqlResult = fragments[1]

\* A composite of two non-empty children at depth two, inside a composite
\* of two non-empty children, next to a child with an empty fragment.
C5_Witness ==
    /\ TopIsComposite /\ sqlCalled
    /\ Len(Top.m_nodes) = 2
    /\ Top.m_nodes[1].kind \in {"AndNode", "OrNode"}
    /\ Len(NonEmptyFragments(Top.m_nodes[1].m_nodes)) = 2
    /\ Len(NonEmptyFragments(Top.m_nodes)) = 2
    /\ sqlResult[1] = "(" /\ sqlResult[2] = "("

\* The last node built is a numeric leaf.
TopIsNumeric == TopIs("NumericFilterNode")

\* The column values of the track of the last match call, one per column of
\* the leaf.
TopValue(i) == getTrackValueForColumn(matchTrack, Top.m_sqlColumns[i])

\* C6 rests on a leaf with both the operator and the range flag set.  No
\* argument gives one: a string that converts to a number as a whole holds
\* no hyphen between two numbers.
NumericModesExclusive ==
    TopIsNumeric => ~(Top.m_bOperatorQuery /\ Top.m_bRangeQuery)

\* The argument reads low-high, both parts numbers.
IsHyphenated(argument) ==
    LET parts == Split(argument, "-")
    IN  Len(parts) = 2 /\ toDouble(parts[1]).ok /\ toDouble(parts[2]).ok

ArgLow == toDouble(Split(TopArg, "-")[1]).d

ArgHigh == toDouble(Split(TopArg, "-")[2]).d

\* C7: a numeric leaf built from low-high with low > high has none of its
\* mode flags set, matches no track and renders the empty string.
C7_InertRange ==
    (TopIsNumeric /\ IsHyphenated(TopArg) /\ ArgLow > ArgHigh) =>
        /\ ~Top.m_bNullQuery /\ ~Top.m_bOperatorQuery /\ ~Top.m_bRangeQuery
        /\ matchCalled => matchResult = FALSE
        /\ sqlCalled => sqlResult = <<>>

C7_Witness ==
    /\ TopIsNumeric /\ TopArg = <<"2", "-", "1">>
    /\ matchCalled /\ matchTrack[LIBRARYTABLE_BPM] = Variant(Scale)
    /\ matchResult = FALSE
    /\ sqlCalled /\ sqlResult = <<>>

ComparisonOperators ==
    { <<"<", "=">>, <<">", "=">>, <<"=">>, <<"<">>, <<">">> }

\* C8: when the argument is a comparison operator followed by a number, the
\* leaf takes that operator and that number: <=N is the operator <= with the
\* operand N, never < with the operand =N.  A leaf built from <=N on one
\* column c matches exactly the tracks whose value of c is a number v with
\* v <= N, and renders c <= N.
C8_OperatorStripped ==
    TopIsNumeric =>
        /\ \A op \in ComparisonOperators :
               (StartsWith(TopArg, op)
                   /\ toDouble(SubSeq(TopArg, Len(op) + 1, Len(TopArg))).ok)
               => /\ Top.m_bOperatorQuery
                  /\ Top.m_operator = op
                  /\ Top.m_dOperatorArgument =
                         toDouble(SubSeq(TopArg, Len(op) + 1, Len(TopArg))).d
        /\ LET operand == SubSeq(TopArg, 3, Len(TopArg))
               N == toDouble(operand).d
           IN  (/\ StartsWith(TopArg, <<"<", "=">>)
                /\ toDouble(operand).ok
                /\ Len(Top.m_sqlColumns) = 1)
               => /\ matchCalled =>
                         matchResult = (TopValue(1).valid /\ TopValue(1).d <= N)
                  /\ sqlCalled =>
                         sqlResult = Top.m_sqlColumns[1]
                                         \o <<" ", "<", "=", " ">> \o operand

C8_Witness ==
    /\ TopIsNumeric /\ TopArg = <<"<", "=", "2">>
    /\ Top.m_sqlColumns = <<LIBRARYTABLE_BPM>>
    /\ matchCalled /\ matchTrack[LIBRARYTABLE_BPM] = Variant(2 * Scale)
    /\ matchResult = TRUE
    /\ sqlCalled /\ sqlResult = <<"b", "p", "m", " ", "<", "=", " ", "2">>

\* The clause c BETWEEN low AND high, the bounds as the argument gives them.
BetweenText(column, low, high) ==
    column \o <<" ", "B", "E", "T", "W", "E", "E", "N", " ">> \o low
        \o <<" ", "A", "N", "D", " ">> \o high

\* C9: a numeric leaf built from low-high with low <= high matches a track
\* exactly when the value v of one of its columns is a number with
\* low <= v <= high, and renders <column> BETWEEN low AND high for each
\* column.
C9_Range ==
    (TopIsNumeric /\ IsHyphenated(TopArg) /\ ArgLow <= ArgHigh) =>
        LET parts == Split(TopArg, "-")
            clause(i) == BetweenText(Top.m_sqlColumns[i], parts[1], parts[2])
        IN  /\ Top.m_bRangeQuery /\ ~Top.m_bOperatorQuery /\ ~Top.m_bNullQuery
            /\ matchCalled =>
                   matchResult =
                       (\E i \in 1..Len(Top.m_sqlColumns) :
                            /\ TopValue(i).valid
                            /\ ArgLow <= TopValue(i).d
                            /\ TopValue(i).d <= ArgHigh)
            /\ (sqlCalled /\ Len(Top.m_sqlColumns) = 1) => sqlResult = clause(1)
            /\ (sqlCalled /\ Len(Top.m_sqlColumns) = 2) =>
                   sqlResult = <<"(">> \o clause(1) \o <<")", " ", "O", "R", " ", "(">>
                                   \o clause(2) \o <<")">>

C9_Witness ==
    /\ TopIsNumeric /\ TopArg = <<"1", "-", "2">>
    /\ Top.m_sqlColumns = <<LIBRARYTABLE_BPM>>
    /\ matchCalled /\ matchTrack[LIBRARYTABLE_BPM] = Variant(2 * Scale)
    /\ matchResult = TRUE
    /\ sqlCalled
    /\ sqlResult = <<"b", "p", "m", " ", "B", "E", "T", "W", "E", "E", "N", " ",
                     "1", " ", "A", "N", "D", " ", "2">>

\* C10: a numeric leaf built from the missing-field term is in null-query
\* mode only; it matches a track exactly when one of its columns has no
\* numeric value in the track, and renders <first column> IS NULL.
C10_NullQuery ==
    (TopIsNumeric /\ TopArg = kMissingFieldSearchTerm) =>
        /\ Top.m_bNullQuery /\ ~Top.m_bOperatorQuery /\ ~Top.m_bRangeQuery
        /\ matchCalled =>
               matchResult =
                   (\E i \in 1..Len(Top.m_sqlColumns) : ~TopValue(i).valid)
        /\ sqlCalled =>
               sqlResult = Top.m_sqlColumns[1]
                               \o <<" ", "I", "S", " ", "N", "U", "L", "L">>

\* The first column holds a number, the second does not: match is true,
\* the fragment names the first column only.
C10_Witness ==
    /\ TopIsNumeric /\ TopArg = kMissingFieldSearchTerm
    /\ Top.m_sqlColumns = <<LIBRARYTABLE_BPM, LIBRARYTABLE_RATING>>
    /\ matchCalled
    /\ matchTrack[LIBRARYTABLE_BPM].valid
    /\ ~matchTrack[LIBRARYTABLE_RATING].valid
    /\ matchResult = TRUE
    /\ sqlCalled
    /\ sqlResult = <<"b", "p", "m", " ", "I", "S", " ", "N", "U", "L", "L">>

\* ------------------------------------------------------------------- C11

\* A non-empty string of decimal digits.
IsNumber(s) == Len(s) >= 1 /\ \A i \in 1..Len(s) : IsDigit(s[i])

\* The seconds a string stands for under the grammar of durations: a number
\* of seconds, or minutes, a separator m or : and at most two digits of
\* seconds up to 59, in both cases with one optional trailing s.
DurationForms(arg) ==
    LET body == IF Len(arg) >= 1 /\ arg[Len(arg)] = "s"
                THEN SubSeq(arg, 1, Len(arg) - 1) ELSE arg
        seps == {k \in 1..Len(body) :
                    LET sec == SubSeq(body, k + 1, Len(body))
                    IN  /\ body[k] \in {"m", ":"}
                        /\ IsNumber(SubSeq(body, 1, k - 1))
                        /\ Len(sec) <= 2
                        /\ \A i \in 1..Len(sec) : IsDigit(sec[i])
                        /\ DigitsVal(sec) <= 59}
    IN  (IF IsNumber(body) THEN {DigitsVal(body)} ELSE {})
            \cup {60 * DigitsVal(SubSeq(body, 1, k - 1))
                      + DigitsVal(SubSeq(body, k + 1, Len(body))) : k \in seps}

TopBpmArg == TopArg.argument

TopBpmRelativeRange == TopArg.relativeRange

TopIsBpm == TopIs("BpmFilterNode")

\* The operand of a tempo argument: the argument without its leading
\* comparison operator, commas read as decimal points.
BpmOperand(arg) ==
    LET opMatch == kNumericOperatorRegexMatch(arg)
    IN  ReplaceChar(IF opMatch.hasMatch THEN opMatch.captured2 ELSE arg,
                    ",", ".")

BpmHasOperator(arg) == kNumericOperatorRegexMatch(arg).hasMatch

\* The operand is low-high: two numbers around one hyphen, low <= high.
IsLowHigh(operand) ==
    LET rangeArgs == Split(operand, "-")
    IN  /\ Len(rangeArgs) = 2
        /\ toDouble(rangeArgs[1]).ok /\ toDouble(rangeArgs[2]).ok
        /\ toDouble(rangeArgs[1]).d <= toDouble(rangeArgs[2]).d

\* The three ways the construction of a tempo leaf ends inert.
BpmEndsInert(arg, fuzzy) ==
    /\ arg # kMissingFieldSearchTerm
    /\ \/ fuzzy /\ BpmHasOperator(arg)
       \/ fuzzy /\ ~toDouble(BpmOperand(arg)).ok
       \/ /\ ~fuzzy
          /\ ~toDouble(BpmOperand(arg)).ok
          /\ ~IsLowHigh(BpmOperand(arg))

\* A tempo leaf with none of its four mode flags set.
IsInertBpm(node) ==
    /\ ~node.m_isNullQuery /\ ~node.m_isOperatorQuery
    /\ ~node.m_isRangeQuery /\ ~node.m_isHalfDoubleQuery

\* C12: a tempo leaf whose construction ends inert has no mode flag set,
\* its match returns false for every track and its toSql returns the empty
\* string.
C12_InertBpm ==
    (TopIsBpm /\ BpmEndsInert(TopBpmArg, Top.m_fuzzy)) =>
        /\ IsInertBpm(Top)
        /\ matchCalled => ~matchResult
        /\ sqlCalled => sqlResult = <<>>

\* What holds of an inert tempo leaf: it matches exactly the tracks whose
\* tempo is the undefined value 0, and renders the empty string.
InertBpmMatchesUndefined ==
    (TopIsBpm /\ BpmEndsInert(TopBpmArg, Top.m_fuzzy)) =>
        /\ IsInertBpm(Top)
        /\ matchCalled => (matchResult <=> getBpm(matchTrack) = kValueUndefined)
        /\ sqlCalled => sqlResult = <<>>

\* ------------------------------------------------------------------- C13

\* The tempo leaf on top was built fuzzy from a single number.
TopIsFuzzyNumber ==
    /\ TopIsBpm /\ Top.m_fuzzy
    /\ ~BpmHasOperator(TopBpmArg)
    /\ toDouble(BpmOperand(TopBpmArg)).ok

\* lower = floor(x) and upper = ceil(x) for x = num / (Scale * Scale).
IsFloorOf(lower, num) ==
    /\ lower % Scale = 0
    /\ lower * Scale <= num /\ num < (lower + Scale) * Scale

IsCeilOf(upper, num) ==
    /\ upper % Scale = 0
    /\ (upper - Scale) * Scale < num /\ num <= upper * Scale

\* C13: a fuzzy tempo leaf built from the single number v with relative
\* range r is in range mode with the bounds floor((1-r)*v) and
\* ceil((1+r)*v); match is true exactly for the tempos inside the inclusive
\* bounds and toSql is the single BETWEEN over them.
C13_FuzzyRange ==
    TopIsFuzzyNumber =>
        LET v == toDouble(BpmOperand(TopBpmArg)).d
            r == TopBpmRelativeRange
            value == getBpm(matchTrack)
        IN  /\ Top.m_isRangeQuery
            /\ ~Top.m_isNullQuery /\ ~Top.m_isOperatorQuery
            /\ ~Top.m_isHalfDoubleQuery
            /\ IsFloorOf(Top.m_rangeLower, (Scale - r) * v)
            /\ IsCeilOf(Top.m_rangeUpper, (Scale + r) * v)
            /\ matchCalled =>
                   (matchResult <=> /\ value >= Top.m_rangeLower
                                    /\ value <= Top.m_rangeUpper)
            /\ sqlCalled =>
                   sqlResult = BpmBetween(Top.m_rangeLower, Top.m_rangeUpper)

\* What holds of such a leaf: besides the tempos inside the bounds it
\* matches the undefined tempo 0.
FuzzyRangeOrUndefined ==
    TopIsFuzzyNumber =>
        LET v == toDouble(BpmOperand(TopBpmArg)).d
            r == TopBpmRelativeRange
            value == getBpm(matchTrack)
        IN  /\ Top.m_isRangeQuery
            /\ ~Top.m_isNullQuery /\ ~Top.m_isOperatorQuery
            /\ ~Top.m_isHalfDoubleQuery
            /\ IsFloorOf(Top.m_rangeLower, (Scale - r) * v)
            /\ IsCeilOf(Top.m_rangeUpper, (Scale + r) * v)
            /\ matchCalled =>
                   (matchResult <=> \/ /\ value >= Top.m_rangeLower
                                       /\ value <= Top.m_rangeUpper
                                    \/ value = kValueUndefined)
            /\ sqlCalled =>
                   sqlResult = BpmBetween(Top.m_rangeLower, Top.m_rangeUpper)

\* ------------------------------------------------------------------- C16

\* C16: after setBpmRelativeRange(range) the shared relative range is the
\* value it had before the call when range is negative, and range when
\* range >= 0.
C16_SetRelativeRange ==
    rangeCalls # <<>> =>
        LET call == rangeCalls[1]
        IN  /\ call.range < 0 => s_relativeRange = call.before
            /\ call.range >= 0 => s_relativeRange = call.range

\* A negative value was rejected after the range had been set to one half.
C16_Witness ==
    /\ rangeCalls # <<>>
    /\ rangeCalls[1].range < 0
    /\ rangeCalls[1].before = Scale \div 2
    /\ s_relativeRange = Scale \div 2

\* ------------------------------------------------------------------- C14

\* The tempo leaf on top was built non-fuzzy, not negated, with no
\* operator, from a single number.
TopIsPlainNumber ==
    /\ TopIsBpm /\ ~Top.m_fuzzy /\ ~Top.m_negate
    /\ ~BpmHasOperator(TopBpmArg)
    /\ toDouble(BpmOperand(TopBpmArg)).ok

\* The decimals of an operand that count: the digits after the decimal
\* point up to the last one that is not 0.
SignificantDecimals(operand) ==
    LET parts == Split(operand, ".")
    IN  IF Len(parts) = 2 THEN ChopZeros(parts[2]) ELSE <<>>

\* Half the width of the core band of an operand: 5 units of the decimal
\* place after its last significant decimal, nothing for a whole number.
CoreTolerance(operand) ==
    LET n == Len(SignificantDecimals(operand))
    IN  IF n = 0 THEN 0 ELSE (5 * Scale) \div Pow10(n + 1)

\* The three inclusive ranges of a half/double query for the operand.
HalfDoubleRanges(node, operand) ==
    LET v == toDouble(operand).d
    IN  /\ node.m_rangeLower = v - CoreTolerance(operand)
        /\ node.m_rangeUpper = v + CoreTolerance(operand)
        /\ node.m_bpmHalfLower % Scale = 0
        /\ 2 * node.m_bpmHalfLower <= v
        /\ v < 2 * (node.m_bpmHalfLower + Scale)
        /\ node.m_bpmHalfUpper % Scale = 0
        /\ 2 * (node.m_bpmHalfUpper - Scale) < v
        /\ v <= 2 * node.m_bpmHalfUpper
        /\ node.m_bpmDoubleLower % Scale = 0
        /\ node.m_bpmDoubleLower <= 2 * v
        /\ 2 * v < node.m_bpmDoubleLower + Scale
        /\ node.m_bpmDoubleUpper % Scale = 0
        /\ node.m_bpmDoubleUpper - Scale < 2 * v
        /\ 2 * v <= node.m_bpmDoubleUpper

InRange(value, lower, upper) == value >= lower /\ value <= upper

\* A leaf in half/double mode only, with the ranges of the operand, whose
\* match and toSql are those of the three ranges.
IsHalfDoubleOf(node, operand) ==
    /\ node.m_isHalfDoubleQuery
    /\ ~node.m_isNullQuery /\ ~node.m_isOperatorQuery /\ ~node.m_isRangeQuery
    /\ HalfDoubleRanges(node, operand)
    /\ matchCalled =>
           (matchResult <=>
               LET value == getBpm(matchTrack)
               IN  \/ InRange(value, node.m_rangeLower, node.m_rangeUpper)
                   \/ InRange(value, node.m_bpmHalfLower, node.m_bpmHalfUpper)
                   \/ InRange(value, node.m_bpmDoubleLower,
                              node.m_bpmDoubleUpper))
    /\ sqlCalled =>
           sqlResult =
               <<"(">> \o BpmBetween(node.m_rangeLower, node.m_rangeUpper)
                   \o <<")", " ", "O", "R", " ", "(">>
                   \o BpmBetween(node.m_bpmHalfLower, node.m_bpmHalfUpper)
                   \o <<")", " ", "O", "R", " ", "(">>
                   \o BpmBetween(node.m_bpmDoubleLower, node.m_bpmDoubleUpper)
                   \o <<")">>

\* C14: a tempo leaf built non-fuzzy, not negated, with no operator, from a
\* single number v, a whole number included, is in half/double mode: match
\* is true exactly for the tempos in the core band around v (the band
\* [v, v] for a whole number), in [floor(v/2), ceil(v/2)] or in
\* [floor(2v), ceil(2v)], and toSql is the three BETWEEN clauses joined
\* with OR.
C14_HalfDouble ==
    TopIsPlainNumber => IsHalfDoubleOf(Top, BpmOperand(TopBpmArg))

\* What holds: the same for the numbers with a significant decimal.
HalfDoubleWithDecimals ==
    (TopIsPlainNumber /\ SignificantDecimals(BpmOperand(TopBpmArg)) # <<>>) =>
        IsHalfDoubleOf(Top, BpmOperand(TopBpmArg))

\* ------------------------------------------------------------------- C15

\* The i-th leaf built is a tempo leaf whose core band was set from the
\* decimals of its operand.
HasCoreBand(i) ==
    /\ stack[i].kind = "BpmFilterNode"
    /\ stack[i].m_isHalfDoubleQuery \/ stack[i].m_isRangeQuery
    /\ toDouble(BpmOperand(ctorArgs[i].argument)).ok

CoreValue(i) == toDouble(BpmOperand(ctorArgs[i].argument)).d

CoreDecimals(i) == Len(SignificantDecimals(BpmOperand(ctorArgs[i].argument)))

CoreWidth(i) == stack[i].m_rangeUpper - stack[i].m_rangeLower

CoreIsSymmetric(i) ==
    CoreValue(i) - stack[i].m_rangeLower = stack[i].m_rangeUpper - CoreValue(i)

TopIsCached == Len(stack) >= 1 /\ IsCached(Top)

\* Membership for a crate leaf, non-membership for a not-in-crate leaf.
MembershipResult(node, trackId, ids) ==
    IF node.kind = "CrateFilterNode" THEN trackId \in ids
    ELSE trackId \notin ids

\* C17: over any sequence of match calls on one crate or not-in-crate leaf
\* the storage is queried exactly once, during the first call; from then on
\* the cache holds the ids read by that query, and every call returns
\* membership (crate) or non-membership (not-in-crate) in that set, whatever
\* the storage holds by then.
C17_QueriedOnce ==
    TopIsCached =>
        /\ ~matchCalled =>
               /\ queryCount = 0
               /\ ~Top.m_matchInitialized
               /\ Top.m_matchingTrackIds = <<>>
        /\ matchCalled =>
               /\ queryCount = 1
               /\ Top.m_matchInitialized
               /\ Top.m_matchingTrackIds = SortedSeq(snapshot)
               /\ matchResult =
                      MembershipResult(Top, getId(matchTrack), snapshot)

\* A crate leaf was matched against both tracks, and the last call still
\* found a track that has been taken out of every crate since the first.
C17_Witness ==
    /\ TopIs("CrateFilterNode")
    /\ matchCalled /\ matchResult
    /\ DOMAIN firstMatch = TrackIds
    /\ getId(matchTrack) \in snapshot
    /\ \A name \in Crates : getId(matchTrack) \notin crateTracks[name]

\* ------------------------------------------------------------------- C18

\* The node as its constructor left it: a crate or not-in-crate leaf with
\* its cache emptied, any other node as it is.
WithoutCache(node) ==
    IF IsCached(node)
    THEN [node EXCEPT !.m_matchInitialized = FALSE,
                      !.m_matchingTrackIds = <<>>]
    ELSE node

\* The node on top is one its constructor could have returned.
TopAsConstructed(node) ==
    CASE node.kind = "CrateFilterNode" -> node = CrateFilterNode_new(TopArg)
      [] node.kind = "NoCrateFilterNode" -> node = NoCrateFilterNode_new
      [] node.kind = "BpmFilterNode" ->
             Returned(node) \in BpmFilterNode_ctor(TopBpmArg, node.m_fuzzy,
                                    node.m_negate, TopBpmRelativeRange)

\* C18: on a constructed node every toSql call returns the string the first
\* one returned and every match call on a track returns the boolean the
\* first call on that track returned, in any order of the calls; but for
\* the cache of a crate or not-in-crate leaf the node stays as constructed.
C18_SameResultAgain ==
    Len(stack) >= 1 =>
        /\ matchCalled =>
               matchResult = firstMatch[getId(matchTrack)].result
        /\ sqlCalled => sqlResult = firstSql[1].result
        /\ TopAsConstructed(WithoutCache(Top))

\* On a crate leaf toSql was called twice and match twice on a track that
\* has been put into the crate since the first call.
C18_Witness ==
    /\ TopIs("CrateFilterNode")
    /\ sqlCalled /\ firstSql[1].again
    /\ matchCalled /\ firstMatch[getId(matchTrack)].again
    /\ ~matchResult
    /\ getId(matchTrack) \in
           Range(selectTracksSortedByCrateNameLike(crateTracks,
                                                   Top.m_crateNameLike))

\* --------------------------------------------------------------------- C19

TopIsText == Len(stack) >= 1 /\ Top.kind = "TextFilterNode"

EndsInSpace(s) == Len(s) > 0 /\ isSpace(s[Len(s)])

\* The store's LIKE on text: letters compare without regard to case.
TextLike(pattern, value) ==
    SqlLike(makeStringLatinLow(pattern), makeStringLatinLow(value))

\* The pattern of the claim: match-all, the argument, one '_', match-all.
TrailingSpacePattern(argument) ==
    kSqlLikeMatchAll \o argument \o <<"_">> \o kSqlLikeMatchAll

\* The fragment that compares every column with the pattern.
LikeText(sqlColumns, pattern) ==
    concatSqlClauses(
        [i \in 1..Len(sqlColumns) |->
            sqlColumns[i] \o SqlLikeOp \o escapeString(pattern)],
        SqlOr)

LikeWildcards == {"%", "_"}

HasLikeWildcard(s) == \E i \in 1..Len(s) : s[i] \in LikeWildcards

\* C19: a text leaf in Contains mode whose argument ends in whitespace
\* renders, for each column, LIKE with the pattern match-all, argument, '_',
\* match-all, and every text that pattern accepts contains the argument with
\* its trailing space.
C19_TrailingSpace ==
    (sqlCalled /\ TopIsText /\ Top.m_matchMode = "Contains"
         /\ EndsInSpace(Top.m_argument))
        => /\ sqlResult = LikeText(Top.m_sqlColumns,
                                   TrailingSpacePattern(Top.m_argument))
           /\ \A s \in TextStringsUpTo(MaxTextLen) :
                  TextLike(TrailingSpacePattern(Top.m_argument), s)
                      => Contains(makeStringLatinLow(s), Top.m_argument)

\* The same for the arguments without a wildcard of LIKE in them.
TrailingSpaceWithoutWildcard ==
    (sqlCalled /\ TopIsText /\ Top.m_matchMode = "Contains"
         /\ EndsInSpace(Top.m_argument) /\ ~HasLikeWildcard(Top.m_argument))
        => /\ sqlResult = LikeText(Top.m_sqlColumns,
                                   TrailingSpacePattern(Top.m_argument))
           /\ \A s \in TextStringsUpTo(MaxTextLen) :
                  TextLike(TrailingSpacePattern(Top.m_argument), s)
                      => Contains(makeStringLatinLow(s), Top.m_argument)

\* The pattern of such an argument accepts some text.
TrailingSpaceAccepts ==
    /\ sqlCalled /\ TopIsText /\ Top.m_matchMode = "Contains"
    /\ EndsInSpace(Top.m_argument) /\ ~HasLikeWildcard(Top.m_argument)
    /\ Len(Top.m_argument) >= 2
    /\ \E s \in TextStringsUpTo(MaxTextLen) :
           TextLike(TrailingSpacePattern(Top.m_argument), s)

\* --------------------------------------------------------------------- C20

\* The threads whose call of match read the flag and found it unset.
SawUninitialized ==
    {t \in Threads : threads[t] # Idle /\ ~threads[t].initialized}

\* The threads whose call of match read the flag and found it set.
SawInitialized ==
    {t \in Threads : threads[t] # Idle /\ threads[t].initialized}

\* The calls of match that found the cache uninitialized: the caller's own
\* before the threads, and those of the threads.
FirstCalls == (IF matchCalled THEN 1 ELSE 0) + Cardinality(SawUninitialized)

\* One call of match has filled the cache before any other call read the
\* flag: as many calls as have been made, only one found the flag unset.
WarmedOnce == TopIsCached /\ FirstCalls = 1

\* The calls that found the cache uninitialized and have run their query.
QueriesRun ==
    (IF matchCalled THEN 1 ELSE 0)
        + Cardinality({t \in SawUninitialized : threads[t].pc # "query"})

\* C20: match calls of several threads on one crate or not-in-crate leaf.
\* When one call has completed before the others start, no call fails to
\* return, the storage is queried once, the other calls find the cache
\* filled by that call and leave it as it is, and every call that has
\* returned gave membership or non-membership in the ids of that one query.
\* Without it, every call that saw the cache uninitialized runs the query,
\* and the cache holds ids of those queries, each at most once per query.
C20_Prewarmed ==
    /\ WarmedOnce =>
           /\ crashed = <<>>
           /\ queryCount <= 1
           /\ \A t \in SawInitialized :
                  /\ threads[t].pc \in {"search", "done"}
                  /\ Top.m_matchInitialized
                  /\ Top.m_matchingTrackIds = SortedSeq(snapshot)
           /\ \A t \in Threads :
                  threads[t].pc = "done" =>
                      threads[t].result =
                          MembershipResult(Top, threads[t].trackId, snapshot)
    /\ TopIsCached =>
           /\ queryCount = QueriesRun
           /\ Range(Top.m_matchingTrackIds) \subseteq snapshot
           /\ Len(Top.m_matchingTrackIds)
                  <= QueriesRun * Cardinality(snapshot)

\* Two calls both saw the cache uninitialized, both have returned, and the
\* cache holds the ids of the query twice.
C20_Witness ==
    /\ TopIsCached /\ crashed = <<>>
    /\ \E t, u \in SawUninitialized :
           /\ t # u
           /\ threads[t].pc = "done" /\ threads[u].pc = "done"
    /\ snapshot # {}
    /\ queryCount = 2
    /\ Len(Top.m_matchingTrackIds) = 2 * Cardinality(snapshot)

\* The caller matched once, tracks were added since, and two threads have
\* returned from match without a query of their own.
PrewarmedCallsReturned ==
    /\ TopIsCached /\ matchCalled
    /\ \A t \in Threads : threads[t].pc = "done"
    /\ \E id \in TrackIds :
           /\ id \notin snapshot
           /\ id \in crateTracks[<<"a">>]
           /\ \E t \in Threads : threads[t].trackId = id

\* Two calls that raced gave an answer that is not the sequential one.
RacedCallsDiffer ==
    /\ TopIsCached /\ FirstCalls = 2
    /\ \E t \in Threads :
           /\ threads[t].pc = "done"
           /\ threads[t].result #
                  MembershipResult(Top, threads[t].trackId, snapshot)

\* --------------------------------------------------------------------- C21

\* The argument with the comparison operator it starts with taken off.
StrippedArg ==
    LET opMatch == kNumericOperatorRegexMatch(TopArg)
    IN  IF opMatch.hasMatch THEN opMatch.captured2 ELSE TopArg

\* low-high with two numbers, low <= high.
IsOrderedRange(argument) ==
    /\ IsHyphenated(argument)
    /\ toDouble(Split(argument, "-")[1]).d <= toDouble(Split(argument, "-")[2]).d

\* C21: a numeric leaf is in range-query mode iff the argument as given,
\* no comparison operator taken off, splits on the hyphen into two numbers
\* low <= high; an argument that starts with a comparison operator followed
\* by low-high gives no range query.
C21_SplitsOriginal ==
    (TopIsNumeric /\ TopArg # kMissingFieldSearchTerm) =>
        (Top.m_bRangeQuery <=> IsOrderedRange(TopArg))

\* What init does: the split runs on the argument after the operator has
\* been taken off.
RangeFromStrippedArgument ==
    (TopIsNumeric /\ TopArg # kMissingFieldSearchTerm) =>
        (Top.m_bRangeQuery <=> IsOrderedRange(StrippedArg))

\* A leaf built from <1-2 matched a track with the value 2 and renders a
\* BETWEEN clause.
OperatorRangeIsRange ==
    /\ TopIsNumeric /\ TopArg = <<"<", "1", "-", "2">>
    /\ Top.m_sqlColumns = <<LIBRARYTABLE_BPM>>
    /\ matchCalled /\ matchTrack[LIBRARYTABLE_BPM] = Variant(2 * Scale)
    /\ matchResult = TRUE
    /\ sqlCalled
    /\ sqlResult = BetweenText(LIBRARYTABLE_BPM, <<"1">>, <<"2">>)

\* --------------------------------------------------------------------- C22

BpmOperator(arg) == kNumericOperatorRegexMatch(arg).captured1

\* A tempo leaf built non-fuzzy from a comparison operator and one number.
TopIsOperatorNumber ==
    /\ TopIsBpm /\ ~Top.m_fuzzy
    /\ TopBpmArg # kMissingFieldSearchTerm
    /\ BpmHasOperator(TopBpmArg)
    /\ toDouble(BpmOperand(TopBpmArg)).ok

\* A leaf in range mode only, its band the core band of the operand, the
\* half and double ranges left as constructed.
IsBandOf(node, operand) ==
    /\ node.m_isRangeQuery
    /\ ~node.m_isNullQuery /\ ~node.m_isOperatorQuery
    /\ ~node.m_isHalfDoubleQuery
    /\ node.m_rangeLower = toDouble(operand).d - CoreTolerance(operand)
    /\ node.m_rangeUpper = toDouble(operand).d + CoreTolerance(operand)
    /\ node.m_bpmHalfLower = 0 /\ node.m_bpmHalfUpper = 0
    /\ node.m_bpmDoubleLower = 0 /\ node.m_bpmDoubleUpper = 0

\* A leaf in operator mode only, whose match is the comparison of the
\* track's tempo with the operand and whose toSql is that one comparison.
IsComparisonOf(node, operator, operand) ==
    /\ node.m_isOperatorQuery
    /\ ~node.m_isNullQuery /\ ~node.m_isRangeQuery
    /\ ~node.m_isHalfDoubleQuery
    /\ node.m_operator = operator
    /\ node.m_bpm = toDouble(operand).d
    /\ matchCalled =>
           (matchResult <=>
               OperatorHolds(operator, getBpm(matchTrack), toDouble(operand).d))
    /\ sqlCalled =>
           sqlResult = LIBRARYTABLE_BPM \o <<" ">> \o operator \o <<" ">>
                           \o QStringNumber(toDouble(operand).d)

\* C22: a non-fuzzy tempo leaf built from a comparison operator and one
\* number v is, for the operator =, in range mode with the core band of v
\* (v itself for a whole number) and without half and double ranges; for
\* <, >, <= and >= it is in operator mode, match compares the track's tempo
\* with v and toSql is the one comparison bpm op v.
C22_OperatorNumber ==
    TopIsOperatorNumber =>
        IF BpmOperator(TopBpmArg) = <<"=">>
        THEN IsBandOf(Top, BpmOperand(TopBpmArg))
        ELSE IsComparisonOf(Top, BpmOperator(TopBpmArg), BpmOperand(TopBpmArg))

\* What holds: the same, the operator = taken with the numbers that have a
\* significant decimal only.
OperatorNumberWithDecimals ==
    (/\ TopIsOperatorNumber
     /\ \/ BpmOperator(TopBpmArg) # <<"=">>
        \/ SignificantDecimals(BpmOperand(TopBpmArg)) # <<>>) =>
        IF BpmOperator(TopBpmArg) = <<"=">>
        THEN IsBandOf(Top, BpmOperand(TopBpmArg))
        ELSE IsComparisonOf(Top, BpmOperator(TopBpmArg), BpmOperand(TopBpmArg))

\* Both cases happen: the leaf from <=1 matched and rendered, and earlier
\* or later the leaf from =.1 exists.
OperatorNumberCompared ==
    /\ TopIsOperatorNumber /\ TopBpmArg = <<"<", "=", "1">>
    /\ matchCalled /\ getBpm(matchTrack) = Scale /\ matchResult
    /\ sqlCalled

EqualsNumberBand ==
    /\ TopIsOperatorNumber /\ TopBpmArg = <<"=", ".", "1">>
    /\ Top.m_rangeLower = Scale \div 20 /\ sqlCalled

\* --------------------------------------------------------------------- C23

\* The constructor hands this argument to ifDecimalsSetRange: non-fuzzy,
\* the operand a number, with no operator or with the operator =.
ReachesDecimals(arg, fuzzy) ==
    /\ ~fuzzy
    /\ arg # kMissingFieldSearchTerm
    /\ toDouble(BpmOperand(arg)).ok
    /\ BpmHasOperator(arg) => BpmOperator(arg) = <<"=">>

\* Both bounds of the core range are those the operand gives.
HasCoreRangeOf(node, operand) ==
    /\ node.m_rangeLower = toDouble(operand).d - CoreTolerance(operand)
    /\ node.m_rangeUpper = toDouble(operand).d + CoreTolerance(operand)

\* C23: for every operand that is a number, with a decimal point or
\* without, its decimals empty or all zero included, the construction of
\* the tempo leaf returns, and the leaf has both bounds of its core range
\* set from the operand: ifDecimalsSetRange reads no decimal part the split
\* did not give and no last character of an empty string.
C23_DecimalsGuarded ==
    /\ \A i \in 1..Len(crashed) :
           ~ReachesDecimals(crashed[i].argument, crashed[i].fuzzy)
    /\ (TopIsBpm /\ ReachesDecimals(TopBpmArg, Top.m_fuzzy)) =>
           HasCoreRangeOf(Top, BpmOperand(TopBpmArg))

\* What holds: the same for the operands with a significant decimal; the
\* constructor fails to return for other operands only.
DecimalsGuardedWithDecimals ==
    /\ \A i \in 1..Len(crashed) :
           /\ ReachesDecimals(crashed[i].argument, crashed[i].fuzzy)
           /\ SignificantDecimals(BpmOperand(crashed[i].argument)) = <<>>
    /\ (/\ TopIsBpm /\ ReachesDecimals(TopBpmArg, Top.m_fuzzy)
        /\ SignificantDecimals(BpmOperand(TopBpmArg)) # <<>>) =>
           HasCoreRangeOf(Top, BpmOperand(TopBpmArg))

\* The constructor did not return for 1.0: the split gave a decimal part,
\* the loop chopped it to nothing and read the last character of the empty
\* string.
ZeroDecimalsNotReturned ==
    /\ Len(crashed) = 1
    /\ crashed[1].argument = <<"1", ".", "0">>

\* The constructor returned for the whole number 1 with a band that is not
\* 1 to 1.
WholeNumberOtherBand ==
    /\ TopIsBpm /\ TopBpmArg = <<"1">> /\ ~Top.m_fuzzy
    /\ Top.m_rangeLower # Scale

\* --------------------------------------------------------------------- C24

\* The leaves the constructor gives for the arguments of the i-th leaf
\* built and the relative range as it was when that leaf was built.
AsConstructed(i) ==
    {o.node : o \in {r \in BpmFilterNode_ctor(ctorArgs[i].argument,
                                              stack[i].m_fuzzy,
                                              stack[i].m_negate,
                                              ctorArgs[i].relativeRange) :
                         r.returned}}

\* C24: the shared relative range is read while a tempo leaf is built and
\* not after: whatever calls of setBpmRelativeRange follow, each leaf keeps
\* the bounds the relative range of its construction gave, and match and
\* toSql return what they return for the leaf as constructed; a leaf built
\* after a call has the bounds of the new value.
C24_ReadAtConstruction ==
    /\ \A i \in 1..Len(stack) :
           stack[i].kind = "BpmFilterNode" =>
               /\ stack[i] \in AsConstructed(i)
               /\ (stack[i].m_fuzzy /\ stack[i].m_isRangeQuery) =>
                      LET v == toDouble(BpmOperand(ctorArgs[i].argument)).d
                          r == ctorArgs[i].relativeRange
                      IN  /\ IsFloorOf(stack[i].m_rangeLower, (Scale - r) * v)
                          /\ IsCeilOf(stack[i].m_rangeUpper, (Scale + r) * v)
    /\ (TopIsBpm /\ matchCalled) =>
           \E node \in AsConstructed(Len(stack)) :
               matchResult = BpmFilterNode_match(node, matchTrack)
    /\ (TopIsBpm /\ sqlCalled) =>
           \E node \in AsConstructed(Len(stack)) :
               sqlResult = BpmFilterNode_toSql(node)

\* Two fuzzy leaves built from 4, the first with the default relative
\* range and the second after the range was set to one half, hold different
\* bounds side by side; the range has been set again since, and the second
\* leaf was matched and rendered after that.
C24_Witness ==
    /\ Len(stack) = 2
    /\ stack[1].kind = "BpmFilterNode" /\ stack[2].kind = "BpmFilterNode"
    /\ stack[1].m_fuzzy /\ stack[2].m_fuzzy
    /\ ctorArgs[1].argument = <<"4">> /\ ctorArgs[2].argument = <<"4">>
    /\ ctorArgs[1].relativeRange = kRelativeRangeDefault
    /\ ctorArgs[2].relativeRange = Scale \div 2
    /\ stack[1].m_rangeLower = 3 * Scale /\ stack[1].m_rangeUpper = 5 * Scale
    /\ stack[2].m_rangeLower = 2 * Scale /\ stack[2].m_rangeUpper = 6 * Scale
    /\ s_relativeRange = 0
    /\ rangeCalls # <<>> /\ rangeCalls[1].before = Scale \div 2
    /\ matchCalled /\ getBpm(matchTrack) = 2 * Scale /\ matchResult
    /\ sqlCalled /\ sqlResult = BpmBetween(2 * Scale, 6 * Scale)

=============================================================================
